---------------------------- MODULE Spec2Model ----------------------------
(***************************************************************************)
(* Model of the media/content backend: the cascade deletes of the content  *)
(* hierarchy (media-upload-api/contentRoutes.js), the gallery routes       *)
(* (galleryRoutes.js) and the password + OTP login (authentication.js).    *)
(*                                                                         *)
(* Each route handler is one action.  Four specifications share the        *)
(* variables: SpecContent (content tree and PDF attachments), SpecMedia    *)
(* (the single-record deletes: PDF attachment, gallery folder, gallery     *)
(* image), SpecAuth (signup, logins, one OTP session over its lifetime,    *)
(* the TTL index) and SpecReissue (repeated OTP requests).                 *)
(***************************************************************************)
EXTENDS Integers, FiniteSets, Sequences, TLC

\* ------------------------------------------------------------------ bounds
\* Records the content collections may create in one run, on top of the
\* records the run starts with.
MaxNew == 2

\* Blob-owning records and files (PDF attachments, gallery folders, gallery
\* images) that may be created in one run of SpecMedia.
MaxMedia == 3

\* Files one gallery upload request may carry (the route accepts up to 30).
MaxUpload == 2

\* Users that may sign up, OTP sessions that may be created, and the last
\* minute of the clock, in one run of SpecAuth.
MaxUsers == 1

MaxOtps == 1

MaxTime == 6

\* OTP sessions that may be created, and the minutes that may pass, in one
\* run of SpecReissue.
MaxSessions == 2

MaxGap == 1

\* User ids that may be generated (by signup and by the seed script) in one
\* run of SpecAccounts.
MaxAccounts == 3

\* Uploads and gallery folders created in one run of SpecSteps.
MaxStepMedia == 2

\* Gallery folders and files created while uploads and deletes interleave.
MaxUploadMedia == 4

\* Requests that reach requireDb at each entry point in one run.
MaxRequests == 3

\* Content records and attachments created in one run of SpecCascade.
MaxCascadeNew == 2

\* OTP requests served at the same time in SpecOtpRace.
MaxCalls == 2

\* OtpSessions created in one run of SpecOtpRace.
MaxRaceSessions == 2

\* Wrong codes submitted for one session in SpecOtpRace, unless two
\* requests overlap.
MaxRaceMisses == 1

\* The same in SpecAttemptRace: one more than the attempt limit.
MaxMisses == 6

\* An id that is well formed but that the store never generated: it stands
\* for every id that denotes no record.
NoSuchId == 0

\* The content records the run starts with: one article (1) with one
\* chapter (2), one topic (3) and one content (4), left by four creates.
InitialIds == 1..4


\* ------------------------------------------------------------------- state
VARIABLES
    articles,      \* Article collection: set of ids
    chapters,      \* Chapter collection: [id, articleId]
    topics,        \* Topic collection:   [id, chapterId]
    contents,      \* Content collection: [id, topicId]
    pdfs,          \* Pdf collection:     [id, parentType, parentId, fileName]
    pdfFiles,      \* file names present in PDF_DIR
    nextId,        \* next ObjectId the content collections generate
    galleryFolders,  \* GalleryFolder collection: set of ids
    galleryImages,   \* GalleryImage collection: [id, folderId, fileName]
    galleryFiles,    \* files under uploads/gallery: [dir, name]
    nextGalleryId,   \* next ObjectId / file name the gallery generates
    resp,          \* the last content/gallery response: [op, status, deleted]
    users,         \* User collection
    otpSessions,   \* OtpSession collection
    purged,        \* never-used OtpSessions the TTL index has removed:
                   \*   [id, userId, channel, identifier]
    now,           \* Date.now(), in minutes
    nextUserId,    \* next ObjectId of the User collection
    nextSessionId, \* next ObjectId of the OtpSession collection
    authResp,      \* the last auth response: [op, status, error, otpRequired,
                   \*   token, dispatched]
    gate,          \* the last decision of adminForWrites:
                   \*   [method, auth, status, error]
    pc,            \* the delete handler in progress and its locals:
                   \*   [op, id, phase, chapterIds, topicIds, contentIds,
                   \*    pdfIds, files]
    attempted,     \* blobs whose removal the handler in progress has called
                   \*   for so far: [store, dir, name]
    calls,         \* the OTP handlers in progress, by request slot:
                   \*   [op, at, channel, identifier, userId, otp, read]
    misses,        \* by OtpSession id: the wrong codes compared with the
                   \*   session's hash so far
    upload,        \* the gallery upload in progress between its folder
                   \*   lookup and its insertMany: [folderId, files]
    db             \* by entry point, the database connection as the process
                   \*   sees it: [DB_READY, connect, last, listening,
                   \*   waiting, requests, reply]

contentVars == <<articles, chapters, topics, contents, pdfs, pdfFiles, nextId>>

galleryVars == <<galleryFolders, galleryImages, galleryFiles, nextGalleryId>>

raceVars == <<calls, misses>>

sessionVars == <<users, otpSessions, purged, now, nextUserId, nextSessionId,
                 authResp, gate, raceVars>>

authVars == <<sessionVars, db>>

vars == <<articles, chapters, topics, contents, pdfs, pdfFiles, nextId,
          galleryFolders, galleryImages, galleryFiles, nextGalleryId, resp,
          users, otpSessions, purged, now, nextUserId, nextSessionId,
          authResp, gate, pc, attempted, calls, misses, upload, db>>

stepVars == <<pc, attempted, upload>>

ParentTypes == {"article", "chapter", "topic", "content"}

\* ------------------------------------------------------- response envelope
\* deleted is the number of records the handler removed (the sum of the
\* deletedCount results the handler discards); it is observation only.
Reply(op, status, deleted) ==
    [op |-> op, status |-> status, deleted |-> deleted]

\* -------------------------------------------------------- content: queries
\* Chapter.find({ articleId })
ChaptersOfArticle(articleId) == {c \in chapters : c.articleId = articleId}

\* Variant of TopicsInChapters: the filter is dropped.
TopicsInChapters_All(chapterIds) == topics

\* Topic.find({ chapterId: { $in: chapterIds } })
TopicsInChapters(chapterIds) == {t \in topics : t.chapterId \in chapterIds}

\* Content.find({ topicId: { $in: topicIds } })
ContentsInTopics(topicIds) == {c \in contents : c.topicId \in topicIds}

\* PdfsOn without the content-level clause of the $or.
PdfsOn_SkipContent(parentType, ids) ==
    IF parentType = "content" THEN {}
    ELSE {p \in pdfs : p.parentType = parentType /\ p.parentId \in ids}

\* Pdf.find({ parentType, parentId: { $in: ids } })
PdfsOn(parentType, ids) ==
    {p \in pdfs : p.parentType = parentType /\ p.parentId \in ids}

IdsOf(recs) == {r.id : r \in recs}

FileNamesOf(ps) == {p.fileName : p \in ps}

\* Request ids worth telling apart: the ids the store mentions (as a record
\* or as a parent reference) and NoSuchId for every other id.
RequestIds ==
    articles \cup IdsOf(chapters) \cup IdsOf(topics) \cup IdsOf(contents)
    \cup IdsOf(pdfs)
    \cup {c.articleId : c \in chapters} \cup {t.chapterId : t \in topics}
    \cup {c.topicId : c \in contents} \cup {p.parentId : p \in pdfs}
    \cup {NoSuchId}

\* ------------------------------------------------------- content: creates
\* Model.create(req.body): the parent reference is whatever the caller
\* sends; no handler looks the parent up.
ExistingIds(parentType) ==
    CASE parentType = "article" -> articles
      [] parentType = "chapter" -> IdsOf(chapters)
      [] parentType = "topic"   -> IdsOf(topics)
      [] parentType = "content" -> IdsOf(contents)

ParentChoices(parentType) == ExistingIds(parentType) \cup {NoSuchId}

CreateArticle ==
    /\ articles' = articles \cup {nextId}
    /\ nextId' = nextId + 1
    /\ resp' = Reply("createArticle", 200, 0)
    /\ UNCHANGED <<chapters, topics, contents, pdfs, pdfFiles, galleryVars>>

CreateChapter(articleId) ==
    /\ chapters' = chapters \cup {[id |-> nextId, articleId |-> articleId]}
    /\ nextId' = nextId + 1
    /\ resp' = Reply("createChapter", 200, 0)
    /\ UNCHANGED <<articles, topics, contents, pdfs, pdfFiles, galleryVars>>

CreateTopic(chapterId) ==
    /\ topics' = topics \cup {[id |-> nextId, chapterId |-> chapterId]}
    /\ nextId' = nextId + 1
    /\ resp' = Reply("createTopic", 200, 0)
    /\ UNCHANGED <<articles, chapters, contents, pdfs, pdfFiles, galleryVars>>

CreateContent(topicId) ==
    /\ contents' = contents \cup {[id |-> nextId, topicId |-> topicId]}
    /\ nextId' = nextId + 1
    /\ resp' = Reply("createContent", 200, 0)
    /\ UNCHANGED <<articles, chapters, topics, pdfs, pdfFiles, galleryVars>>

\* POST /content/pdfs: multer has stored the file under a fresh name before
\* the callback runs; the record keeps that name.
UploadPdf(parentType, parentId) ==
    /\ pdfs' = pdfs \cup {[id |-> nextId, parentType |-> parentType,
                           parentId |-> parentId, fileName |-> nextId]}
    /\ pdfFiles' = pdfFiles \cup {nextId}
    /\ nextId' = nextId + 1
    /\ resp' = Reply("uploadPdf", 200, 0)
    /\ UNCHANGED <<articles, chapters, topics, contents, galleryVars>>

\* ------------------------------------------------------- content: deletes
\* safeUnlink over a list of files: every unlink that throws is swallowed
\* and leaves its file behind, so the files in failed survive.
SafeUnlinkAll(files, failed) == pdfFiles \ (files \ failed)

\* DELETE /content/articles/:id
DeleteArticle(articleId) ==
    LET chapterIds == IdsOf(ChaptersOfArticle(articleId))
        topicIds   == IdsOf(TopicsInChapters(chapterIds))
        contentIds == IdsOf(ContentsInTopics(topicIds))
        found      == PdfsOn("article", {articleId})
                      \cup PdfsOn("chapter", chapterIds)
                      \cup PdfsOn("topic", topicIds)
                      \cup PdfsOn("content", contentIds)
        pdfs1      == {p \in pdfs : p.id \notin IdsOf(found)}
        contents1  == {c \in contents : c.topicId \notin topicIds}
        topics1    == {t \in topics : t.chapterId \notin chapterIds}
        chapters1  == {c \in chapters : c.articleId # articleId}
        articles1  == articles \ {articleId}
    IN  /\ \E failed \in SUBSET (FileNamesOf(found) \cap pdfFiles) :
              pdfFiles' = SafeUnlinkAll(FileNamesOf(found), failed)
        /\ pdfs' = pdfs1
        /\ contents' = contents1
        /\ topics' = topics1
        /\ chapters' = chapters1
        /\ articles' = articles1
        /\ resp' = Reply("deleteArticle", 200,
                         Cardinality(pdfs \ pdfs1) + Cardinality(contents \ contents1)
                         + Cardinality(topics \ topics1) + Cardinality(chapters \ chapters1)
                         + Cardinality(articles \ articles1))
        /\ UNCHANGED <<nextId, galleryVars>>

\* DELETE /content/chapters/:id
DeleteChapter(chapterId) ==
    LET topicIds   == IdsOf(TopicsInChapters({chapterId}))
        contentIds == IdsOf(ContentsInTopics(topicIds))
        found      == PdfsOn("chapter", {chapterId})
                      \cup PdfsOn("topic", topicIds)
                      \cup PdfsOn("content", contentIds)
        pdfs1      == {p \in pdfs : p.id \notin IdsOf(found)}
        contents1  == {c \in contents : c.topicId \notin topicIds}
        topics1    == {t \in topics : t.chapterId # chapterId}
        chapters1  == {c \in chapters : c.id # chapterId}
    IN  /\ \E failed \in SUBSET (FileNamesOf(found) \cap pdfFiles) :
              pdfFiles' = SafeUnlinkAll(FileNamesOf(found), failed)
        /\ pdfs' = pdfs1
        /\ contents' = contents1
        /\ topics' = topics1
        /\ chapters' = chapters1
        /\ resp' = Reply("deleteChapter", 200,
                         Cardinality(pdfs \ pdfs1) + Cardinality(contents \ contents1)
                         + Cardinality(topics \ topics1) + Cardinality(chapters \ chapters1))
        /\ UNCHANGED <<articles, nextId, galleryVars>>

\* DELETE /content/topics/:id
DeleteTopic(topicId) ==
    LET contentIds == IdsOf(ContentsInTopics({topicId}))
        found      == PdfsOn("topic", {topicId})
                      \cup PdfsOn("content", contentIds)
        pdfs1      == {p \in pdfs : p.id \notin IdsOf(found)}
        contents1  == {c \in contents : c.topicId # topicId}
        topics1    == {t \in topics : t.id # topicId}
    IN  /\ \E failed \in SUBSET (FileNamesOf(found) \cap pdfFiles) :
              pdfFiles' = SafeUnlinkAll(FileNamesOf(found), failed)
        /\ pdfs' = pdfs1
        /\ contents' = contents1
        /\ topics' = topics1
        /\ resp' = Reply("deleteTopic", 200,
                         Cardinality(pdfs \ pdfs1) + Cardinality(contents \ contents1)
                         + Cardinality(topics \ topics1))
        /\ UNCHANGED <<articles, chapters, nextId, galleryVars>>

\* DeleteContent answering NotFound for a missing content, as the PDF
\* delete does.
DeleteContent_NotFound(contentId) ==
    IF contentId \notin IdsOf(contents)
    THEN /\ resp' = Reply("deleteContent", 404, 0)
         /\ UNCHANGED <<contentVars, galleryVars>>
    ELSE /\ pdfs' = pdfs \ PdfsOn("content", {contentId})
         /\ pdfFiles' = pdfFiles \ FileNamesOf(PdfsOn("content", {contentId}))
         /\ contents' = {c \in contents : c.id # contentId}
         /\ resp' = Reply("deleteContent", 200, 1)
         /\ UNCHANGED <<articles, chapters, topics, nextId, galleryVars>>

\* DELETE /content/contents/:id
DeleteContent(contentId) ==
    LET found      == PdfsOn("content", {contentId})
        pdfs1      == pdfs \ PdfsOn("content", {contentId})
        contents1  == {c \in contents : c.id # contentId}
    IN  /\ \E failed \in SUBSET (FileNamesOf(found) \cap pdfFiles) :
              pdfFiles' = SafeUnlinkAll(FileNamesOf(found), failed)
        /\ pdfs' = pdfs1
        /\ contents' = contents1
        /\ resp' = Reply("deleteContent", 200,
                         Cardinality(pdfs \ pdfs1) + Cardinality(contents \ contents1))
        /\ UNCHANGED <<articles, chapters, topics, nextId, galleryVars>>

\* DeletePdf without the findById guard.
DeletePdf_NoGuard(pdfId) ==
    LET doc == {p \in pdfs : p.id = pdfId}
    IN  /\ pdfFiles' = pdfFiles \ FileNamesOf(doc)
        /\ pdfs' = pdfs \ doc
        /\ resp' = Reply("deletePdf", 200, Cardinality(doc))
        /\ UNCHANGED <<articles, chapters, topics, contents, nextId, galleryVars>>

\* DELETE /content/pdfs/:id
DeletePdf(pdfId) ==
    LET doc == {p \in pdfs : p.id = pdfId}
    IN  IF doc = {}
        THEN /\ resp' = Reply("deletePdf", 404, 0)
             /\ UNCHANGED <<contentVars, galleryVars>>
        ELSE /\ \E failed \in SUBSET (FileNamesOf(doc) \cap pdfFiles) :
                   pdfFiles' = SafeUnlinkAll(FileNamesOf(doc), failed)
             /\ pdfs' = pdfs \ doc
             /\ resp' = Reply("deletePdf", 200, 1)
             /\ UNCHANGED <<articles, chapters, topics, contents, nextId, galleryVars>>

\* ------------------------------------------------------------- gallery
\* No upload is between its folder lookup and its insertMany.
NoUpload == [folderId |-> NoSuchId, files |-> {}]

ImagesOfFolder(folderId) == {i \in galleryImages : i.folderId = folderId}

\* Variant of FilesInDir: the whole gallery upload tree.
FilesInDir_All(dir) == galleryFiles

\* The files under uploads/gallery/<dir>.
FilesInDir(dir) == {f \in galleryFiles : f.dir = dir}

\* The files multer's galleryStorage writes for one request: n fresh names
\* in the directory of the folder id, before the route callback runs.
StoredFiles(dir, n) ==
    {[dir |-> dir, name |-> k] : k \in nextGalleryId..(nextGalleryId + n - 1)}

GalleryRequestIds ==
    galleryFolders \cup IdsOf(galleryImages)
    \cup {i.folderId : i \in galleryImages} \cup {NoSuchId}

\* POST /folders: the folder id is generated first, the thumbnail (if any)
\* is stored under it, then the title is checked.
CreateGalleryFolder(hasThumb, titleOk) ==
    /\ nextGalleryId' = nextGalleryId + 1
    /\ galleryFiles' = galleryFiles \cup
                       StoredFiles(nextGalleryId, IF hasThumb THEN 1 ELSE 0)
    /\ IF titleOk
       THEN /\ galleryFolders' = galleryFolders \cup {nextGalleryId}
            /\ resp' = Reply("createFolder", 200, 0)
       ELSE /\ resp' = Reply("createFolder", 400, 0)
            /\ UNCHANGED galleryFolders
    /\ UNCHANGED <<galleryImages, contentVars>>

\* POST /folders/:folderId/images
UploadGalleryImages(folderId, n) ==
    /\ nextGalleryId' = nextGalleryId + n
    /\ galleryFiles' = galleryFiles \cup StoredFiles(folderId, n)
    /\ IF folderId \notin galleryFolders
       THEN /\ resp' = Reply("uploadImages", 404, 0)
            /\ UNCHANGED galleryImages
       ELSE IF n = 0
       THEN /\ resp' = Reply("uploadImages", 400, 0)
            /\ UNCHANGED galleryImages
       ELSE /\ galleryImages' = galleryImages \cup
                {[id |-> f.name, folderId |-> folderId, fileName |-> f.name] :
                    f \in StoredFiles(folderId, n)}
            /\ resp' = Reply("uploadImages", 200, 0)
    /\ UNCHANGED <<galleryFolders, contentVars>>

\* DELETE /folders/:folderId: records first, then one recursive rmSync of
\* the folder's directory.  rmSync is not guarded: when it throws, the files
\* in survivors are left and the caller gets 500.
DeleteGalleryFolder(folderId) ==
    IF folderId \notin galleryFolders
    THEN /\ resp' = Reply("deleteFolder", 404, 0)
         /\ UNCHANGED <<galleryVars, contentVars>>
    ELSE /\ galleryImages' = galleryImages \ ImagesOfFolder(folderId)
         /\ galleryFolders' = galleryFolders \ {folderId}
         /\ \E survivors \in SUBSET FilesInDir(folderId) :
               /\ galleryFiles' = (galleryFiles \ FilesInDir(folderId)) \cup survivors
               /\ resp' = Reply("deleteFolder",
                                IF survivors = {} THEN 200 ELSE 500,
                                Cardinality(ImagesOfFolder(folderId)) + 1)
         /\ UNCHANGED <<nextGalleryId, contentVars>>

\* DELETE /images/:imageId: the record first, then unlinkSync of its file,
\* not guarded either.
DeleteGalleryImage(imageId) ==
    LET img == {i \in galleryImages : i.id = imageId}
        files == {[dir |-> i.folderId, name |-> i.fileName] : i \in img}
                 \cap galleryFiles
    IN  IF img = {}
        THEN /\ resp' = Reply("deleteImage", 404, 0)
             /\ UNCHANGED <<galleryVars, contentVars>>
        ELSE /\ galleryImages' = galleryImages \ img
             /\ \E survivors \in SUBSET files :
                   /\ galleryFiles' = (galleryFiles \ files) \cup survivors
                   /\ resp' = Reply("deleteImage",
                                    IF survivors = {} THEN 200 ELSE 500, 1)
             /\ UNCHANGED <<galleryFolders, nextGalleryId, contentVars>>

\* ------------------------------------------- upload, statement by statement
\* POST /folders/:folderId/images up to the await of insertMany: multer has
\* stored the files, the folder was looked up and found.
UploadImagesFind(folderId, n) ==
    /\ upload = NoUpload
    /\ nextGalleryId' = nextGalleryId + n
    /\ galleryFiles' = galleryFiles \cup StoredFiles(folderId, n)
    /\ IF folderId \notin galleryFolders
       THEN /\ resp' = Reply("uploadImages", 404, 0)
            /\ UNCHANGED upload
       ELSE IF n = 0
       THEN /\ resp' = Reply("uploadImages", 400, 0)
            /\ UNCHANGED upload
       ELSE /\ upload' = [folderId |-> folderId, files |-> StoredFiles(folderId, n)]
            /\ UNCHANGED resp
    /\ UNCHANGED <<galleryFolders, galleryImages, contentVars, pc, attempted>>

\* GalleryImage.insertMany(req.files.map(...)) and the response.
UploadImagesInsert ==
    /\ upload # NoUpload
    /\ galleryImages' = galleryImages \cup
            {[id |-> f.name, folderId |-> upload.folderId, fileName |-> f.name] :
                f \in upload.files}
    /\ resp' = Reply("uploadImages", 200, 0)
    /\ upload' = NoUpload
    /\ UNCHANGED <<galleryFolders, galleryFiles, nextGalleryId, contentVars,
                   pc, attempted>>

\* ------------------------------------------- deletes, statement by statement
\* The delete handlers again, one awaited store or file-system call per
\* step, in the order of the statements of each handler.
Idle ==
    [op |-> "idle", id |-> NoSuchId, phase |-> 0, chapterIds |-> {},
     topicIds |-> {}, contentIds |-> {}, pdfIds |-> {}, files |-> {}]

BlobRef(store, dir, name) == [store |-> store, dir |-> dir, name |-> name]

PdfBlobs(ps) == {BlobRef("pdf", NoSuchId, p.fileName) : p \in ps}

GalleryBlobs(fs) == {BlobRef("gallery", f.dir, f.name) : f \in fs}

\* Variant of Phases: the cascades delete the root first and work downwards.
Phases_ParentsFirst(op) ==
    CASE op = "deleteArticle" ->
            <<"unlink", "pdfs", "root", "chapters", "topics", "contents">>
      [] op = "deleteChapter" -> <<"unlink", "pdfs", "root", "topics", "contents">>
      [] op = "deleteTopic"   -> <<"unlink", "pdfs", "root", "contents">>
      [] op = "deleteContent" -> <<"unlink", "pdfs", "root">>
      [] op = "deletePdf"     -> <<"unlink", "root">>
      [] op = "deleteFolder"  -> <<"images", "root", "rmSync">>
      [] op = "deleteImage"   -> <<"root", "unlinkSync">>

\* The calls of each handler after its lookups, in statement order.
Phases(op) ==
    CASE op = "deleteArticle" ->
            <<"unlink", "pdfs", "contents", "topics", "chapters", "root">>
      [] op = "deleteChapter" -> <<"unlink", "pdfs", "contents", "topics", "root">>
      [] op = "deleteTopic"   -> <<"unlink", "pdfs", "contents", "root">>
      [] op = "deleteContent" -> <<"unlink", "pdfs", "root">>
      [] op = "deletePdf"     -> <<"unlink", "root">>
      [] op = "deleteFolder"  -> <<"images", "root", "rmSync">>
      [] op = "deleteImage"   -> <<"root", "unlinkSync">>

StepOps == {"deleteArticle", "deleteChapter", "deleteTopic", "deleteContent",
            "deletePdf", "deleteFolder", "deleteImage"}

\* The lookups at the head of each handler, kept in its locals.
Resolve(op, id) ==
    LET chapterIds == IF op = "deleteArticle"
                      THEN IdsOf(ChaptersOfArticle(id)) ELSE {}
        topicIds   == CASE op = "deleteArticle" -> IdsOf(TopicsInChapters(chapterIds))
                        [] op = "deleteChapter" -> IdsOf(TopicsInChapters({id}))
                        [] OTHER -> {}
        contentIds == CASE op \in {"deleteArticle", "deleteChapter"} ->
                               IdsOf(ContentsInTopics(topicIds))
                        [] op = "deleteTopic" -> IdsOf(ContentsInTopics({id}))
                        [] OTHER -> {}
        found      == CASE op = "deleteArticle" ->
                               PdfsOn("article", {id}) \cup PdfsOn("chapter", chapterIds)
                               \cup PdfsOn("topic", topicIds)
                               \cup PdfsOn("content", contentIds)
                        [] op = "deleteChapter" ->
                               PdfsOn("chapter", {id}) \cup PdfsOn("topic", topicIds)
                               \cup PdfsOn("content", contentIds)
                        [] op = "deleteTopic" ->
                               PdfsOn("topic", {id}) \cup PdfsOn("content", contentIds)
                        [] op = "deleteContent" -> PdfsOn("content", {id})
                        [] op = "deletePdf" -> {p \in pdfs : p.id = id}
                        [] OTHER -> {}
        img        == {i \in galleryImages : i.id = id}
    IN  [op |-> op, id |-> id, phase |-> 1, chapterIds |-> chapterIds,
         topicIds |-> topicIds, contentIds |-> contentIds,
         pdfIds |-> IdsOf(found),
         files |-> IF op = "deleteImage"
                   THEN {BlobRef("gallery", i.folderId, i.fileName) : i \in img}
                   ELSE PdfBlobs(found)]

\* findById(...) found nothing: the three handlers that answer 404.
Missing(op, id) ==
    CASE op = "deletePdf"    -> id \notin IdsOf(pdfs)
      [] op = "deleteFolder" -> id \notin galleryFolders
      [] op = "deleteImage"  -> id \notin IdsOf(galleryImages)
      [] OTHER -> FALSE

\* A delete request arrives and the handler runs up to its first write.
BeginDelete(op, id) ==
    /\ pc = Idle
    /\ UNCHANGED attempted
    /\ IF Missing(op, id)
       THEN /\ resp' = Reply(op, 404, 0)
            /\ UNCHANGED pc
       ELSE /\ pc' = Resolve(op, id)
            /\ UNCHANGED resp
    /\ UNCHANGED <<contentVars, galleryVars>>

Phase == IF pc = Idle THEN "none" ELSE Phases(pc.op)[pc.phase]

\* The handler has made a call that asked for the removal of the blobs in
\* called (none for a store call); it moves to its next statement, or
\* answers after the last one and its locals are gone.
Advance(status, called) ==
    IF status # 200 \/ pc.phase = Len(Phases(pc.op))
    THEN /\ pc' = Idle
         /\ attempted' = {}
         /\ resp' = Reply(pc.op, status, 0)
    ELSE /\ pc' = [pc EXCEPT !.phase = @ + 1]
         /\ attempted' = attempted \cup called
         /\ UNCHANGED resp

\* for (const p of pdfs) await safeUnlink(...)
StepUnlink ==
    /\ Phase = "unlink"
    /\ LET names == {f.name : f \in pc.files}
       IN  \E failed \in SUBSET (names \cap pdfFiles) :
               pdfFiles' = SafeUnlinkAll(names, failed)
    /\ Advance(200, pc.files)
    /\ UNCHANGED <<articles, chapters, topics, contents, pdfs, nextId, galleryVars>>

\* Pdf.deleteMany(...)
StepPdfs ==
    /\ Phase = "pdfs"
    /\ pdfs' = IF pc.op = "deleteContent"
               THEN pdfs \ PdfsOn("content", {pc.id})
               ELSE {p \in pdfs : p.id \notin pc.pdfIds}
    /\ Advance(200, {})
    /\ UNCHANGED <<articles, chapters, topics, contents, pdfFiles, nextId,
                   galleryVars>>

\* Variant of StepContents: the call deletes nothing.
StepContents_Skip ==
    /\ Phase = "contents"
    /\ Advance(200, {})
    /\ UNCHANGED <<contentVars, galleryVars>>

\* Content.deleteMany(...)
StepContents ==
    /\ Phase = "contents"
    /\ contents' = IF pc.op = "deleteTopic"
                   THEN {c \in contents : c.topicId # pc.id}
                   ELSE {c \in contents : c.topicId \notin pc.topicIds}
    /\ Advance(200, {})
    /\ UNCHANGED <<articles, chapters, topics, pdfs, pdfFiles, nextId,
                   galleryVars>>

\* Topic.deleteMany(...)
StepTopics ==
    /\ Phase = "topics"
    /\ topics' = IF pc.op = "deleteChapter"
                 THEN {t \in topics : t.chapterId # pc.id}
                 ELSE {t \in topics : t.chapterId \notin pc.chapterIds}
    /\ Advance(200, {})
    /\ UNCHANGED <<articles, chapters, contents, pdfs, pdfFiles, nextId,
                   galleryVars>>

\* Chapter.deleteMany({ articleId })
StepChapters ==
    /\ Phase = "chapters"
    /\ chapters' = {c \in chapters : c.articleId # pc.id}
    /\ Advance(200, {})
    /\ UNCHANGED <<articles, topics, contents, pdfs, pdfFiles, nextId,
                   galleryVars>>

\* findByIdAndDelete / deleteOne of the record the request names.
StepRoot ==
    /\ Phase = "root"
    /\ articles' = IF pc.op = "deleteArticle" THEN articles \ {pc.id} ELSE articles
    /\ chapters' = IF pc.op = "deleteChapter"
                   THEN {c \in chapters : c.id # pc.id} ELSE chapters
    /\ topics' = IF pc.op = "deleteTopic"
                 THEN {t \in topics : t.id # pc.id} ELSE topics
    /\ contents' = IF pc.op = "deleteContent"
                   THEN {c \in contents : c.id # pc.id} ELSE contents
    /\ pdfs' = IF pc.op = "deletePdf" THEN {p \in pdfs : p.id # pc.id} ELSE pdfs
    /\ galleryFolders' = IF pc.op = "deleteFolder"
                         THEN galleryFolders \ {pc.id} ELSE galleryFolders
    /\ galleryImages' = IF pc.op = "deleteImage"
                        THEN {i \in galleryImages : i.id # pc.id}
                        ELSE galleryImages
    /\ Advance(200, {})
    /\ UNCHANGED <<pdfFiles, nextId, galleryFiles, nextGalleryId>>

\* GalleryImage.deleteMany({ folderId })
StepImages ==
    /\ Phase = "images"
    /\ galleryImages' = galleryImages \ ImagesOfFolder(pc.id)
    /\ Advance(200, {})
    /\ UNCHANGED <<contentVars, galleryFolders, galleryFiles, nextGalleryId>>

\* if (fs.existsSync(dir)) fs.rmSync(dir, ...): a throw leaves the files in
\* survivors and reaches the catch (500).
StepRmSync ==
    /\ Phase = "rmSync"
    /\ \E survivors \in SUBSET FilesInDir(pc.id) :
          /\ galleryFiles' = (galleryFiles \ FilesInDir(pc.id)) \cup survivors
          /\ Advance(IF survivors = {} THEN 200 ELSE 500,
                     GalleryBlobs(FilesInDir(pc.id)))
    /\ UNCHANGED <<contentVars, galleryFolders, galleryImages, nextGalleryId>>

\* if (fs.existsSync(filePath)) fs.unlinkSync(filePath): likewise.
StepUnlinkSync ==
    /\ Phase = "unlinkSync"
    /\ LET files == {f \in galleryFiles : BlobRef("gallery", f.dir, f.name) \in pc.files}
       IN  \E survivors \in SUBSET files :
              /\ galleryFiles' = (galleryFiles \ files) \cup survivors
              /\ Advance(IF survivors = {} THEN 200 ELSE 500, pc.files)
    /\ UNCHANGED <<contentVars, galleryFolders, galleryImages, nextGalleryId>>

\* The four cascading deletes of the content tree.
CascadeOps == {"deleteArticle", "deleteChapter", "deleteTopic", "deleteContent"}

\* One of the lookups at the head of a handler rejects: the catch answers
\* 500 before any write.
ResolveFails(op, id) ==
    /\ pc = Idle
    /\ resp' = Reply(op, 500, 0)
    /\ UNCHANGED <<contentVars, galleryVars, stepVars>>

\* Variant of StoreFails: the rejection is swallowed and the handler goes on
\* with its next statement.
StoreFails_Continues ==
    /\ Phase \in {"pdfs", "contents", "topics", "chapters", "root", "images"}
    /\ Advance(200, {})
    /\ UNCHANGED <<contentVars, galleryVars>>

\* The awaited store call at the current statement rejects: the catch
\* answers 500 and the handler ends; what earlier statements deleted stays
\* deleted.  (safeUnlink never rejects.)
StoreFails ==
    /\ Phase \in {"pdfs", "contents", "topics", "chapters", "root", "images"}
    /\ pc' = Idle
    /\ attempted' = {}
    /\ resp' = Reply(pc.op, 500, 0)
    /\ UNCHANGED <<contentVars, galleryVars>>

\* ---------------------------------------------------------------- auth
STATIC_ADMIN_EMAIL_FINAL == "sriandhravalmiki@gmail.com"

STATIC_ADMIN_PASSWORD_FINAL == "rama@2026"

\* maxAttempts of a new session, and its lifetime in minutes (5 * 60 * 1000 ms).
MaxAttempts == 5

OtpTtl == 5

\* Request inputs.  Emails arrive raw, some in mixed case.
RawEmails == {"Rupesh@TrashMailr.com", "SriAndhraValmiki@Gmail.com"}

Phones == {"+919876543210"}

NoPhone == ""

\* Passwords offered at signup (one too short), and at the logins.
SignupPasswords == {"password123", "short"}

Passwords == {"password123", "wrongpass1"}

AdminPasswords == {"rama@2026", "wrongpass1"}

Codes == {"100000", "999999"}

Channels == {"email", "sms"}

\* The (channel, identifier) pairs of the OTP requests: an email address on
\* the email channel, an E.164 number on the sms channel.
Targets == ({"email"} \X RawEmails) \cup ({"sms"} \X Phones)

Never == 0 - 1

\* String(email || "").trim().toLowerCase()
normalizeEmail(email) ==
    CASE email = "Rupesh@TrashMailr.com" -> "rupesh@trashmailr.com"
      [] email = "SriAndhraValmiki@Gmail.com" -> "sriandhravalmiki@gmail.com"
      [] OTHER -> email

\* typeof p === "string" && p.length >= 8
passwordOk(p) == Len(p) >= 8

\* sha256(identifier:otp:secret): equal exactly for equal (identifier, otp).
hashOtp(identifier, otp) == <<identifier, otp>>

\* bcrypt.hash / bcrypt.compare: the hash matches exactly its own password.
BcryptHash(password) == <<"bcrypt", password>>

\* Variant of BcryptCompare: every password is accepted.
BcryptCompare_Any(password, hash) == TRUE

BcryptCompare(password, hash) == hash = BcryptHash(password)

NoToken == [userId |-> "", role |-> "", email |-> "", phone |-> ""]

\* jwt.sign({ userId, role, email, phone })
signToken(user) ==
    [userId |-> ToString(user.id), role |-> user.role, email |-> user.email,
     phone |-> user.phone]

\* res.status(status).json({ error | otpRequired, token }); dispatched says
\* whether sendSmsOtp / sendEmailOtp handed a message to the sender.
AuthReply(op, status, error, otpRequired, token) ==
    [op |-> op, status |-> status, error |-> error,
     otpRequired |-> otpRequired, token |-> token, dispatched |-> FALSE]

\* User.findOne(channel === "email" ? { email } : { phone })
FindUser(channel, identifier) ==
    {u \in users : IF channel = "email" THEN u.email = identifier
                   ELSE u.phone # NoPhone /\ u.phone = identifier}

\* Variant of UnusedSessions: the filter without used: false.
UnusedSessions_IgnoreUsed(userId, channel, identifier) ==
    {s \in otpSessions : /\ s.userId = userId /\ s.channel = channel
                         /\ s.identifier = identifier}

\* OtpSession.findOne({ userId, channel, identifier, used: false })
\*           .sort({ createdAt: -1 })
UnusedSessions(userId, channel, identifier) ==
    {s \in otpSessions : /\ s.userId = userId /\ s.channel = channel
                         /\ s.identifier = identifier /\ ~s.used}

LatestUnused(userId, channel, identifier) ==
    {s \in UnusedSessions(userId, channel, identifier) :
        \A r \in UnusedSessions(userId, channel, identifier) :
            r.createdAt <= s.createdAt}

\* Variant of MarkUsed: the updateMany left out.
MarkUsed_Skip(stale) == stale

\* OtpSession.updateMany({ userId, channel, identifier, used: false },
\*                       { $set: { used: true } })
MarkUsed(stale) == {[r EXCEPT !.used = TRUE] : r \in stale}

\* Variant of Expired: the expiry test left out.
Expired_Never(session) == FALSE

\* session.expiresAt.getTime() < Date.now()
Expired(session) == session.expiresAt < now

\* Variant of Exhausted: the attempts test left out.
Exhausted_Never(session) == FALSE

\* session.attempts >= session.maxAttempts
Exhausted(session) == session.attempts >= session.maxAttempts

\* Variant of Consume: the session is not marked used.
Consume_KeepOpen(session) == [session EXCEPT !.tokens = @ + 1]

\* session.used = true; await session.save() on the success path.  tokens
\* counts the tokens issued on the session.
Consume(session) == [session EXCEPT !.used = TRUE, !.tokens = @ + 1]

\* Variant of CountAttempt: a wrong code also closes the session.
CountAttempt_AndClose(session) ==
    [session EXCEPT !.attempts = @ + 1, !.used = TRUE]

\* session.attempts += 1; await session.save()
CountAttempt(session) == [session EXCEPT !.attempts = @ + 1]

\* Variant of MarkVerified: a verified code sets both flags.
MarkVerified_Both(user, channel) ==
    [user EXCEPT !.isEmailVerified = TRUE, !.isPhoneVerified = TRUE]

\* if (channel === "email") user.isEmailVerified = true;
\* if (channel === "sms") user.isPhoneVerified = true;
MarkVerified(user, channel) ==
    [user EXCEPT !.isEmailVerified = IF channel = "email" THEN TRUE ELSE @,
                 !.isPhoneVerified = IF channel = "sms" THEN TRUE ELSE @]

\* Variant of Verified: every user counts as verified.
Verified_Always(user) == TRUE

\* user.isEmailVerified === true || user.isPhoneVerified === true
Verified(user) == user.isEmailVerified = TRUE \/ user.isPhoneVerified = TRUE

\* Variant of ChannelVerified: the short-circuit is never taken.
ChannelVerified_Never(user, channel) == FALSE

\* channel === "email" ? user.isEmailVerified === true
\*                     : user.isPhoneVerified === true
ChannelVerified(user, channel) ==
    IF channel = "email" THEN user.isEmailVerified = TRUE
    ELSE user.isPhoneVerified = TRUE

\* doc.save() of one changed document
SaveSession(old, new) == (otpSessions \ {old}) \cup {new}

SaveUser(old, new) == (users \ {old}) \cup {new}

\* Variant of AdminLogin: the password is not compared.
AdminLogin_EmailOnly(rawEmail, password) ==
    /\ IF normalizeEmail(rawEmail) # STATIC_ADMIN_EMAIL_FINAL
       THEN authResp' = AuthReply("adminLogin", 401, "Invalid admin credentials",
                                  FALSE, NoToken)
       ELSE authResp' = AuthReply("adminLogin", 200, "", FALSE,
                                  [userId |-> "admin_static", role |-> "admin",
                                   email |-> STATIC_ADMIN_EMAIL_FINAL, phone |-> ""])
    /\ UNCHANGED <<users, otpSessions, purged, now, nextUserId, nextSessionId, gate>>

\* GET /admin/login
AdminLogin(rawEmail, password) ==
    /\ IF normalizeEmail(rawEmail) # STATIC_ADMIN_EMAIL_FINAL
          \/ password # STATIC_ADMIN_PASSWORD_FINAL
       THEN authResp' = AuthReply("adminLogin", 401, "Invalid admin credentials",
                                  FALSE, NoToken)
       ELSE authResp' = AuthReply("adminLogin", 200, "", FALSE,
                                  [userId |-> "admin_static", role |-> "admin",
                                   email |-> STATIC_ADMIN_EMAIL_FINAL, phone |-> ""])
    /\ UNCHANGED <<users, otpSessions, purged, now, nextUserId, nextSessionId, gate>>

\* POST /signup (names and formats of the inputs are well formed)
\* Variant of ExistingUsers: only the email is looked up.
ExistingUsers_EmailOnly(email, phone) == {u \in users : u.email = email}

\* User.findOne({ $or: [{ email }, { phone }] })
ExistingUsers(email, phone) ==
    {u \in users : u.email = email \/ (phone # NoPhone /\ u.phone = phone)}

Signup(rawEmail, phone, password) ==
    LET email == normalizeEmail(rawEmail)
        exists == ExistingUsers(email, phone)
    IN  /\ IF ~passwordOk(password)
           THEN /\ authResp' = AuthReply("signup", 400, "Password must be at least 8 characters",
                                         FALSE, NoToken)
                /\ UNCHANGED <<users, nextUserId>>
           ELSE IF email = STATIC_ADMIN_EMAIL_FINAL
           THEN /\ authResp' = AuthReply("signup", 403, "This email is reserved for admin.",
                                         FALSE, NoToken)
                /\ UNCHANGED <<users, nextUserId>>
           ELSE IF exists # {}
           THEN /\ authResp' = AuthReply("signup", 409, "User already exists",
                                         FALSE, NoToken)
                /\ UNCHANGED <<users, nextUserId>>
           ELSE /\ users' = users \cup
                       {[id |-> nextUserId, email |-> email, phone |-> phone,
                         passwordHash |-> BcryptHash(password), role |-> "user",
                         isEmailVerified |-> FALSE, isPhoneVerified |-> FALSE,
                         lastLoginAt |-> Never]}
                /\ nextUserId' = nextUserId + 1
                /\ authResp' = AuthReply("signup", 200, "", FALSE, NoToken)
        /\ UNCHANGED <<otpSessions, purged, now, nextSessionId, gate>>

\* POST /login/password
LoginPassword(rawEmail, password) ==
    LET email == normalizeEmail(rawEmail)
        found == {u \in users : u.email = email}
    IN  /\ IF ~passwordOk(password)
           THEN /\ authResp' = AuthReply("loginPassword", 400, "Password must be at least 8 characters",
                                         FALSE, NoToken)
                /\ UNCHANGED users
           ELSE IF email = STATIC_ADMIN_EMAIL_FINAL
           THEN /\ authResp' = AuthReply("loginPassword", 403, "Use /api/auth/admin/login for admin.",
                                         FALSE, NoToken)
                /\ UNCHANGED users
           ELSE IF found = {}
           THEN /\ authResp' = AuthReply("loginPassword", 404, "User not found",
                                         FALSE, NoToken)
                /\ UNCHANGED users
           ELSE \E user \in found :
                IF ~BcryptCompare(password, user.passwordHash)
                THEN /\ authResp' = AuthReply("loginPassword", 401, "Invalid password",
                                              FALSE, NoToken)
                     /\ UNCHANGED users
                ELSE LET legacy == user.isEmailVerified \notin BOOLEAN
                                   /\ user.isPhoneVerified \notin BOOLEAN
                         user1 == IF legacy
                                  THEN [user EXCEPT !.isEmailVerified = TRUE]
                                  ELSE user
                         verified == Verified(user1)
                         user2 == [user1 EXCEPT !.lastLoginAt = now]
                     IN  IF ~verified
                         THEN /\ authResp' = AuthReply("loginPassword", 200, "",
                                                       TRUE, NoToken)
                              /\ users' = SaveUser(user, user1)
                         ELSE /\ users' = SaveUser(user, user2)
                              /\ authResp' = AuthReply("loginPassword", 200, "",
                                                       FALSE, signToken(user2))
        /\ UNCHANGED <<otpSessions, purged, now, nextUserId, nextSessionId, gate>>

\* POST /login/request-otp.  otp is the code generateOtp() draws; delivered
\* says whether the SMS / email sender accepted the message or threw.
RequestOtp(channel, rawIdentifier, password, otp, delivered) ==
    LET identifier == IF channel = "email" THEN normalizeEmail(rawIdentifier)
                      ELSE rawIdentifier
        found == FindUser(channel, identifier)
    IN  IF ~passwordOk(password)
        THEN /\ authResp' = AuthReply("requestOtp", 400, "Password must be at least 8 characters",
                                      FALSE, NoToken)
             /\ UNCHANGED <<users, otpSessions, nextSessionId>>
        ELSE IF identifier = STATIC_ADMIN_EMAIL_FINAL
        THEN /\ authResp' = AuthReply("requestOtp", 403, "Use /api/auth/admin/login for admin.",
                                      FALSE, NoToken)
             /\ UNCHANGED <<users, otpSessions, nextSessionId>>
        ELSE IF found = {}
        THEN /\ authResp' = AuthReply("requestOtp", 404, "User not found", FALSE, NoToken)
             /\ UNCHANGED <<users, otpSessions, nextSessionId>>
        ELSE \E user \in found :
             IF ~BcryptCompare(password, user.passwordHash)
             THEN /\ authResp' = AuthReply("requestOtp", 401, "Invalid password",
                                           FALSE, NoToken)
                  /\ UNCHANGED <<users, otpSessions, nextSessionId>>
             ELSE IF ChannelVerified(user, channel)
             THEN LET user1 == [user EXCEPT !.lastLoginAt = now]
                  IN  /\ users' = SaveUser(user, user1)
                      /\ authResp' = AuthReply("requestOtp", 200, "", FALSE,
                                               signToken(user1))
                      /\ UNCHANGED <<otpSessions, nextSessionId>>
             ELSE LET stale == UnusedSessions(user.id, channel, identifier)
                      session == [id |-> nextSessionId, channel |-> channel,
                                  identifier |-> identifier, userId |-> user.id,
                                  otpHash |-> hashOtp(identifier, otp),
                                  expiresAt |-> now + OtpTtl, attempts |-> 0,
                                  maxAttempts |-> MaxAttempts, used |-> FALSE,
                                  createdAt |-> now, tokens |-> 0]
                  IN  /\ otpSessions' =
                            (otpSessions \ stale)
                            \cup MarkUsed(stale)
                            \cup {session}
                      /\ nextSessionId' = nextSessionId + 1
                      /\ IF delivered
                         THEN authResp' = [AuthReply("requestOtp", 200, "OTP sent",
                                                     TRUE, NoToken)
                                           EXCEPT !.dispatched = TRUE]
                         ELSE authResp' = AuthReply("requestOtp", 500, "Failed to login",
                                                    FALSE, NoToken)
                      /\ UNCHANGED users

RequestOtpAction(channel, rawIdentifier, password, otp, delivered) ==
    /\ RequestOtp(channel, rawIdentifier, password, otp, delivered)
    /\ UNCHANGED <<purged, now, nextUserId, gate>>

\* POST /login/verify-otp
VerifyOtp(channel, rawIdentifier, password, otp) ==
    LET identifier == IF channel = "email" THEN normalizeEmail(rawIdentifier)
                      ELSE rawIdentifier
        found == FindUser(channel, identifier)
    IN  IF ~passwordOk(password)
        THEN /\ authResp' = AuthReply("verifyOtp", 400, "Password must be at least 8 characters",
                                      FALSE, NoToken)
             /\ UNCHANGED <<users, otpSessions>>
        ELSE IF identifier = STATIC_ADMIN_EMAIL_FINAL
        THEN /\ authResp' = AuthReply("verifyOtp", 403, "Use /api/auth/admin/login for admin.",
                                      FALSE, NoToken)
             /\ UNCHANGED <<users, otpSessions>>
        ELSE IF found = {}
        THEN /\ authResp' = AuthReply("verifyOtp", 404, "User not found", FALSE, NoToken)
             /\ UNCHANGED <<users, otpSessions>>
        ELSE \E user \in found :
             IF ~BcryptCompare(password, user.passwordHash)
             THEN /\ authResp' = AuthReply("verifyOtp", 401, "Invalid password",
                                           FALSE, NoToken)
                  /\ UNCHANGED <<users, otpSessions>>
             ELSE IF LatestUnused(user.id, channel, identifier) = {}
             THEN /\ authResp' = AuthReply("verifyOtp", 400, "No OTP found. Request again.",
                                           FALSE, NoToken)
                  /\ UNCHANGED <<users, otpSessions>>
             ELSE \E session \in LatestUnused(user.id, channel, identifier) :
                  IF Expired(session)
                  THEN /\ otpSessions' = SaveSession(session, [session EXCEPT !.used = TRUE])
                       /\ authResp' = AuthReply("verifyOtp", 400, "OTP expired. Request again.",
                                                FALSE, NoToken)
                       /\ UNCHANGED users
                  ELSE IF Exhausted(session)
                  THEN /\ otpSessions' = SaveSession(session, [session EXCEPT !.used = TRUE])
                       /\ authResp' = AuthReply("verifyOtp", 429, "Too many attempts. Request new OTP.",
                                                FALSE, NoToken)
                       /\ UNCHANGED users
                  ELSE IF hashOtp(identifier, otp) # session.otpHash
                  THEN /\ otpSessions' = SaveSession(session, CountAttempt(session))
                       /\ authResp' = AuthReply("verifyOtp", 401, "Invalid OTP",
                                                FALSE, NoToken)
                       /\ UNCHANGED users
                  ELSE LET user1 == [MarkVerified(user, channel)
                                         EXCEPT !.lastLoginAt = now]
                       IN  /\ otpSessions' = SaveSession(session, Consume(session))
                           /\ users' = SaveUser(user, user1)
                           /\ authResp' = AuthReply("verifyOtp", 200, "", FALSE,
                                                    signToken(user1))

VerifyOtpAction(channel, rawIdentifier, password, otp) ==
    /\ VerifyOtp(channel, rawIdentifier, password, otp)
    /\ UNCHANGED <<purged, now, nextUserId, nextSessionId, gate>>

\* ------------------------------------- auth: the OTP handlers, await by await
\* request-otp and verify-otp again, for requests that pass the checks on
\* the request body, the user and the password, split at the awaits between
\* their reads and writes of the OtpSession collection.
Free ==
    [op |-> "none", at |-> "free", channel |-> "", identifier |-> "",
     userId |-> NoSuchId, otp |-> "", read |-> {}]

\* The user of a request that passes the checks at the head of both
\* handlers (none if a check answers the request).
Admitted(channel, rawIdentifier, password) ==
    LET identifier == IF channel = "email" THEN normalizeEmail(rawIdentifier)
                      ELSE rawIdentifier
    IN  IF passwordOk(password) /\ identifier # STATIC_ADMIN_EMAIL_FINAL
        THEN {u \in FindUser(channel, identifier) :
                 BcryptCompare(password, u.passwordHash)}
        ELSE {}

\* request-otp up to and including OtpSession.updateMany(..., used: true).
RequestOtpInvalidate(k, channel, rawIdentifier, password) ==
    /\ calls[k] = Free
    /\ \E user \in Admitted(channel, rawIdentifier, password) :
          LET identifier == IF channel = "email" THEN user.email ELSE user.phone
              stale == UnusedSessions(user.id, channel, identifier)
          IN  /\ ~ChannelVerified(user, channel)
              /\ otpSessions' = (otpSessions \ stale) \cup MarkUsed(stale)
              /\ calls' = [calls EXCEPT ![k] =
                             [Free EXCEPT !.op = "requestOtp", !.at = "create",
                                          !.channel = channel,
                                          !.identifier = identifier,
                                          !.userId = user.id]]
    /\ UNCHANGED <<users, purged, now, nextUserId, nextSessionId, authResp,
                   gate, misses>>

\* request-otp from OtpSession.create to the response.
RequestOtpCreate(k, otp, delivered) ==
    /\ calls[k].at = "create"
    /\ otpSessions' = otpSessions \cup
          {[id |-> nextSessionId, channel |-> calls[k].channel,
            identifier |-> calls[k].identifier, userId |-> calls[k].userId,
            otpHash |-> hashOtp(calls[k].identifier, otp),
            expiresAt |-> now + OtpTtl, attempts |-> 0,
            maxAttempts |-> MaxAttempts, used |-> FALSE,
            createdAt |-> now, tokens |-> 0]}
    /\ nextSessionId' = nextSessionId + 1
    /\ authResp' = IF delivered
                   THEN [AuthReply("requestOtp", 200, "OTP sent", TRUE, NoToken)
                            EXCEPT !.dispatched = TRUE]
                   ELSE AuthReply("requestOtp", 500, "Failed to login",
                                  FALSE, NoToken)
    /\ calls' = [calls EXCEPT ![k] = Free]
    /\ UNCHANGED <<users, purged, now, nextUserId, gate, misses>>

\* verify-otp up to and including OtpSession.findOne(...).sort(...).
VerifyOtpFind(k, channel, rawIdentifier, password, otp) ==
    /\ calls[k] = Free
    /\ \E user \in Admitted(channel, rawIdentifier, password) :
          LET identifier == IF channel = "email" THEN user.email ELSE user.phone
              latest == LatestUnused(user.id, channel, identifier)
          IN  IF latest = {}
              THEN /\ authResp' = AuthReply("verifyOtp", 400,
                                            "No OTP found. Request again.",
                                            FALSE, NoToken)
                   /\ UNCHANGED calls
              ELSE /\ \E session \in latest :
                        calls' = [calls EXCEPT ![k] =
                                    [op |-> "verifyOtp", at |-> "evaluate",
                                     channel |-> channel,
                                     identifier |-> identifier,
                                     userId |-> user.id, otp |-> otp,
                                     read |-> {session}]]
                   /\ UNCHANGED authResp
    /\ UNCHANGED <<users, otpSessions, purged, now, nextUserId, nextSessionId,
                   gate, misses>>

\* session.save(): an update of the paths the handler changed on its copy.
SaveUsed(id) ==
    {IF s.id = id THEN [s EXCEPT !.used = TRUE] ELSE s : s \in otpSessions}

\* Variant of SaveAttempts: an increment of the stored counter ($inc).
SaveAttempts_Increment(id, attempts) ==
    {IF s.id = id THEN [s EXCEPT !.attempts = @ + 1] ELSE s : s \in otpSessions}

SaveAttempts(id, attempts) ==
    {IF s.id = id THEN [s EXCEPT !.attempts = attempts] ELSE s : s \in otpSessions}

\* used = true on the success path; tokens counts the tokens issued.
SaveIssued(id) ==
    {IF s.id = id THEN [s EXCEPT !.used = TRUE, !.tokens = @ + 1] ELSE s :
        s \in otpSessions}

\* verify-otp from the expiry test on its copy of the session to the
\* response.
VerifyOtpEvaluate(k) ==
    /\ calls[k].at = "evaluate"
    /\ \E session \in calls[k].read : \E user \in users :
          /\ user.id = calls[k].userId
          /\ IF Expired(session)
             THEN /\ otpSessions' = SaveUsed(session.id)
                  /\ authResp' = AuthReply("verifyOtp", 400,
                                           "OTP expired. Request again.",
                                           FALSE, NoToken)
                  /\ UNCHANGED <<users, misses>>
             ELSE IF Exhausted(session)
             THEN /\ otpSessions' = SaveUsed(session.id)
                  /\ authResp' = AuthReply("verifyOtp", 429,
                                           "Too many attempts. Request new OTP.",
                                           FALSE, NoToken)
                  /\ UNCHANGED <<users, misses>>
             ELSE IF hashOtp(calls[k].identifier, calls[k].otp) # session.otpHash
             THEN /\ otpSessions' = SaveAttempts(session.id, session.attempts + 1)
                  /\ misses' = [misses EXCEPT ![session.id] = @ + 1]
                  /\ authResp' = AuthReply("verifyOtp", 401, "Invalid OTP",
                                           FALSE, NoToken)
                  /\ UNCHANGED users
             ELSE LET user1 == [MarkVerified(user, calls[k].channel)
                                    EXCEPT !.lastLoginAt = now]
                  IN  /\ otpSessions' = SaveIssued(session.id)
                      /\ users' = SaveUser(user, user1)
                      /\ authResp' = AuthReply("verifyOtp", 200, "", FALSE,
                                               signToken(user1))
                      /\ UNCHANGED misses
    /\ calls' = [calls EXCEPT ![k] = Free]
    /\ UNCHANGED <<purged, now, nextUserId, nextSessionId, gate>>

\* ------------------------------------------------- auth: admin middleware
\* Emails that decoded tokens carry, some in mixed case.
TokenEmails == {"sriandhravalmiki@gmail.com", "SriAndhraValmiki@Gmail.com",
                "rupesh@trashmailr.com"}

\* String(...).toLowerCase()
toLowerCase(str) ==
    CASE str = "SriAndhraValmiki@Gmail.com" -> "sriandhravalmiki@gmail.com"
      [] str = "Rupesh@TrashMailr.com" -> "rupesh@trashmailr.com"
      [] OTHER -> str

\* The payloads jwt.verify may decode: any payload signed with the secret.
DecodedTokens ==
    [userId : {"admin_static", "1"}, role : {"admin", "user"},
     email : TokenEmails, phone : {""}]

\* What the Authorization header carries.
Headers == {"missing", "invalid", "valid"}

Methods == {"GET", "PUT"}

READ_METHODS == {"GET", "HEAD", "OPTIONS"}

GateReply(method, auth, status, error) ==
    [method |-> method, auth |-> auth, status |-> status, error |-> error]

\* Variant of requireAdmin: the role alone decides.
requireAdmin_RoleOnly(method, auth) ==
    IF auth = NoToken THEN GateReply(method, auth, 401, "Unauthorized")
    ELSE IF auth.role # "admin" THEN GateReply(method, auth, 403, "Admin only")
    ELSE GateReply(method, auth, 200, "")

\* requireAdmin: status 200 stands for next().
requireAdmin(method, auth) ==
    IF auth = NoToken THEN GateReply(method, auth, 401, "Unauthorized")
    ELSE IF auth.role # "admin" THEN GateReply(method, auth, 403, "Admin only")
    ELSE IF toLowerCase(auth.email) # STATIC_ADMIN_EMAIL_FINAL
    THEN GateReply(method, auth, 403, "Invalid admin identity")
    ELSE GateReply(method, auth, 200, "")

\* authMiddleware followed by requireAdmin, as adminForWrites chains them.
\* req.auth stays unset (NoToken) unless the header verifies.
adminForWrites(method, header, decoded) ==
    /\ gate' = IF method \in READ_METHODS
               THEN GateReply(method, NoToken, 200, "")
               ELSE IF header = "missing"
               THEN GateReply(method, NoToken, 401, "Missing Bearer token")
               ELSE IF header = "invalid"
               THEN GateReply(method, NoToken, 401, "Invalid or expired token")
               ELSE requireAdmin(method, decoded)
    /\ UNCHANGED <<users, otpSessions, purged, now, nextUserId, nextSessionId,
                   authResp>>

\* --------------------------------------------------------- seed script
SeedEmails == {"rupesh@trashmailr.com", "test@example.com", "admin@test.com"}

SeedUser(id, email, password, role) ==
    [id |-> id, email |-> email, phone |-> NoPhone,
     passwordHash |-> BcryptHash(password), role |-> role,
     isEmailVerified |-> TRUE, isPhoneVerified |-> FALSE, lastLoginAt |-> Never]

\* seedDatabase: delete the test users, create the test user, create the
\* admin user.  The second create fails on the unique email index when the
\* admin user is already stored, and the script exits with what it has done.
seedDatabase ==
    LET kept == {u \in users : u.email \notin SeedEmails}
        testUser == SeedUser(nextUserId, "rupesh@trashmailr.com",
                             "password123", "user")
        adminUser == SeedUser(nextUserId + 1, STATIC_ADMIN_EMAIL_FINAL,
                              STATIC_ADMIN_PASSWORD_FINAL, "admin")
    IN  /\ IF \E u \in kept : u.email = STATIC_ADMIN_EMAIL_FINAL
           THEN /\ users' = kept \cup {testUser}
                /\ nextUserId' = nextUserId + 1
           ELSE /\ users' = kept \cup {testUser, adminUser}
                /\ nextUserId' = nextUserId + 2
        /\ UNCHANGED <<otpSessions, purged, now, nextSessionId, authResp, gate>>

\* One minute passes.
Tick ==
    /\ now' = now + 1
    /\ UNCHANGED <<users, otpSessions, purged, nextUserId, nextSessionId,
                   authResp, gate>>

\* The TTL index on expiresAt (expireAfterSeconds: 0): the store's monitor
\* removes a session whose expiresAt has passed.
TtlExpire(session) ==
    /\ session \in otpSessions
    /\ session.expiresAt < now
    /\ otpSessions' = otpSessions \ {session}
    /\ purged' = IF session.used THEN purged
                 ELSE purged \cup {[id |-> session.id, userId |-> session.userId,
                                    channel |-> session.channel,
                                    identifier |-> session.identifier]}
    /\ UNCHANGED <<users, now, nextUserId, nextSessionId, authResp, gate>>

\* The long-running server (server.js) and the serverless entry point
\* (api/index.js), each a process with its own connection.
EntryPoints == {"server", "serverless"}

NoReply == [n |-> 0, status |-> 0]

\* DB_READY = false, no connect attempt made; the server listens only after
\* start() has connected, the serverless app is called from the first
\* request on.  connect is the state of the promise of mongoose.connect
\* (mongooseConnecting in api/index.js, the await in start() in server.js).
NotStarted(e) ==
    [DB_READY |-> FALSE, connect |-> "null", last |-> "none",
     listening |-> (e = "serverless"), waiting |-> 0, requests |-> 0,
     reply |-> NoReply]

\* ---------------------------------------------------------- specification
Init ==
    /\ articles = {1}
    /\ chapters = {[id |-> 2, articleId |-> 1]}
    /\ topics = {[id |-> 3, chapterId |-> 2]}
    /\ contents = {[id |-> 4, topicId |-> 3]}
    /\ pdfs = {}
    /\ pdfFiles = {}
    /\ nextId = Cardinality(InitialIds) + 1
    /\ galleryFolders = {}
    /\ galleryImages = {}
    /\ galleryFiles = {}
    /\ nextGalleryId = 1
    /\ resp = Reply("none", 0, 0)
    /\ users = {}
    /\ otpSessions = {}
    /\ purged = {}
    /\ now = 0
    /\ nextUserId = 1
    /\ nextSessionId = 1
    /\ authResp = AuthReply("none", 0, "", FALSE, NoToken)
    /\ gate = [method |-> "none", auth |-> NoToken, status |-> 0, error |-> ""]
    /\ pc = Idle
    /\ attempted = {}
    /\ calls = [k \in 1..MaxCalls |-> Free]
    /\ misses = [i \in 1..MaxRaceSessions |-> 0]
    /\ upload = NoUpload
    /\ db = [e \in EntryPoints |-> NotStarted(e)]

\* The content records created so far in this run.
Created == nextId - Cardinality(InitialIds) - 1

NextContent ==
    \/ Created < MaxNew /\ CreateArticle /\ UNCHANGED <<authVars, stepVars>>
    \/ Created < MaxNew /\ UNCHANGED <<authVars, stepVars>>
          /\ \E a \in ParentChoices("article") : CreateChapter(a)
    \/ Created < MaxNew /\ UNCHANGED <<authVars, stepVars>>
          /\ \E c \in ParentChoices("chapter") : CreateTopic(c)
    \/ Created < MaxNew /\ UNCHANGED <<authVars, stepVars>>
          /\ \E t \in ParentChoices("topic") : CreateContent(t)
    \/ Created < MaxNew /\ UNCHANGED <<authVars, stepVars>>
          /\ \E pt \in ParentTypes : \E p \in ParentChoices(pt) : UploadPdf(pt, p)
    \/ UNCHANGED <<authVars, stepVars>> /\ \E a \in RequestIds : DeleteArticle(a)
    \/ UNCHANGED <<authVars, stepVars>> /\ \E c \in RequestIds : DeleteChapter(c)
    \/ UNCHANGED <<authVars, stepVars>> /\ \E t \in RequestIds : DeleteTopic(t)
    \/ UNCHANGED <<authVars, stepVars>> /\ \E c \in RequestIds : DeleteContent(c)
    \/ UNCHANGED <<authVars, stepVars>> /\ \E p \in RequestIds : DeletePdf(p)

SpecContent == Init /\ [][NextContent]_vars

\* The deletes of single blob-owning records, with the uploads that feed them.
MediaCreated == Created + nextGalleryId - 1

NextMedia ==
    \/ MediaCreated < MaxMedia /\ UNCHANGED <<authVars, stepVars>>
          /\ \E pt \in ParentTypes : \E p \in ParentChoices(pt) : UploadPdf(pt, p)
    \/ UNCHANGED <<authVars, stepVars>> /\ \E p \in RequestIds : DeletePdf(p)
    \/ MediaCreated < MaxMedia /\ UNCHANGED <<authVars, stepVars>>
          /\ \E hasThumb \in BOOLEAN : \E titleOk \in BOOLEAN :
                CreateGalleryFolder(hasThumb, titleOk)
    \/ UNCHANGED <<authVars, stepVars>>
          /\ \E f \in GalleryRequestIds : \E n \in 0..MaxUpload :
                MediaCreated + n <= MaxMedia /\ UploadGalleryImages(f, n)
    \/ UNCHANGED <<authVars, stepVars>> /\ \E f \in GalleryRequestIds : DeleteGalleryFolder(f)
    \/ UNCHANGED <<authVars, stepVars>> /\ \E i \in GalleryRequestIds : DeleteGalleryImage(i)

SpecMedia == Init /\ [][NextMedia]_vars

\* The content and gallery stores, which no auth route touches.
mediaVars == <<contentVars, galleryVars, resp>>

\* Signup, the logins and the OTP flow, one request at a time.
NextAuth ==
    \/ UNCHANGED <<mediaVars, stepVars, raceVars, db>>
          /\ \E e \in RawEmails : \E pw \in AdminPasswords : AdminLogin(e, pw)
    \/ Cardinality(users) < MaxUsers /\ UNCHANGED <<mediaVars, stepVars, raceVars, db>>
          /\ \E e \in RawEmails : \E ph \in Phones \cup {NoPhone} :
                \E pw \in SignupPasswords : Signup(e, ph, pw)
    \/ UNCHANGED <<mediaVars, stepVars, raceVars, db>>
          /\ \E e \in RawEmails : \E pw \in Passwords : LoginPassword(e, pw)
    \/ UNCHANGED <<mediaVars, stepVars, raceVars, db>>
          /\ \E t \in Targets : \E pw \in Passwords :
                \E otp \in Codes : \E delivered \in BOOLEAN :
                    /\ RequestOtpAction(t[1], t[2], pw, otp, delivered)
                    /\ nextSessionId' <= MaxOtps + 1
    \/ UNCHANGED <<mediaVars, stepVars, raceVars, db>>
          /\ \E t \in Targets : \E pw \in Passwords : \E otp \in Codes :
                VerifyOtpAction(t[1], t[2], pw, otp)
    \/ now < MaxTime /\ Tick /\ UNCHANGED <<mediaVars, stepVars, raceVars, db>>
    \/ UNCHANGED <<mediaVars, stepVars, raceVars, db>> /\ \E s \in otpSessions : TtlExpire(s)

SpecAuth == Init /\ [][NextAuth]_vars

\* Repeated OTP requests of one user; expired sessions stay in the store
\* (the TTL monitor does not run).
NextReissue ==
    \/ Cardinality(users) < MaxUsers /\ UNCHANGED <<mediaVars, stepVars, raceVars, db>>
          /\ \E e \in RawEmails : \E ph \in Phones \cup {NoPhone} :
                \E pw \in SignupPasswords : Signup(e, ph, pw)
    \/ UNCHANGED <<mediaVars, stepVars, raceVars, db>>
          /\ \E t \in Targets : \E pw \in Passwords :
                \E otp \in Codes : \E delivered \in BOOLEAN :
                    /\ RequestOtpAction(t[1], t[2], pw, otp, delivered)
                    /\ nextSessionId' <= MaxSessions + 1
    \/ UNCHANGED <<mediaVars, stepVars, raceVars, db>>
          /\ \E t \in Targets : \E pw \in Passwords : \E otp \in Codes :
                VerifyOtpAction(t[1], t[2], pw, otp)
    \/ now < MaxGap /\ Tick /\ UNCHANGED <<mediaVars, stepVars, raceVars, db>>

SpecReissue == Init /\ [][NextReissue]_vars

\* Uploads, and deletes run statement by statement, one request at a time.
NextSteps ==
    \/ pc = Idle /\ MediaCreated < MaxStepMedia /\ UNCHANGED <<authVars, stepVars>>
          /\ \E pt \in ParentTypes : \E p \in ParentChoices(pt) : UploadPdf(pt, p)
    \/ pc = Idle /\ MediaCreated < MaxStepMedia /\ UNCHANGED <<authVars, stepVars>>
          /\ \E hasThumb \in BOOLEAN : \E titleOk \in BOOLEAN :
                CreateGalleryFolder(hasThumb, titleOk)
    \/ pc = Idle /\ UNCHANGED <<authVars, stepVars>>
          /\ \E f \in GalleryRequestIds : \E n \in 0..MaxUpload :
                MediaCreated + n <= MaxStepMedia /\ UploadGalleryImages(f, n)
    \/ UNCHANGED <<authVars, upload>>
          /\ \E op \in StepOps :
                \E id \in IF op \in {"deleteFolder", "deleteImage"}
                          THEN GalleryRequestIds ELSE RequestIds :
                    BeginDelete(op, id)
    \/ StepUnlink /\ UNCHANGED <<authVars, upload>>
    \/ StepPdfs /\ UNCHANGED <<authVars, upload>>
    \/ StepContents /\ UNCHANGED <<authVars, upload>>
    \/ StepTopics /\ UNCHANGED <<authVars, upload>>
    \/ StepChapters /\ UNCHANGED <<authVars, upload>>
    \/ StepRoot /\ UNCHANGED <<authVars, upload>>
    \/ StepImages /\ UNCHANGED <<authVars, upload>>
    \/ StepRmSync /\ UNCHANGED <<authVars, upload>>
    \/ StepUnlinkSync /\ UNCHANGED <<authVars, upload>>

SpecSteps == Init /\ [][NextSteps]_vars

\* The content tree with its cascading deletes run statement by statement,
\* one request at a time, any store call of a delete possibly failing.
\* Creates name existing parents, so the tree is built consistent.
NextCascade ==
    \/ pc = Idle /\ Created < MaxCascadeNew /\ UNCHANGED <<authVars, stepVars>>
          /\ \E a \in ExistingIds("article") : CreateChapter(a)
    \/ pc = Idle /\ Created < MaxCascadeNew /\ UNCHANGED <<authVars, stepVars>>
          /\ \E c \in ExistingIds("chapter") : CreateTopic(c)
    \/ pc = Idle /\ Created < MaxCascadeNew /\ UNCHANGED <<authVars, stepVars>>
          /\ \E t \in ExistingIds("topic") : CreateContent(t)
    \/ pc = Idle /\ Created < MaxCascadeNew /\ UNCHANGED <<authVars, stepVars>>
          /\ \E pt \in ParentTypes : \E p \in ExistingIds(pt) : UploadPdf(pt, p)
    \/ UNCHANGED <<authVars, upload>>
          /\ \E op \in CascadeOps : \E id \in RequestIds : BeginDelete(op, id)
    \/ UNCHANGED <<authVars, upload>>
          /\ \E op \in CascadeOps : \E id \in RequestIds : ResolveFails(op, id)
    \/ StepUnlink /\ UNCHANGED <<authVars, upload>>
    \/ StepPdfs /\ UNCHANGED <<authVars, upload>>
    \/ StepContents /\ UNCHANGED <<authVars, upload>>
    \/ StepTopics /\ UNCHANGED <<authVars, upload>>
    \/ StepChapters /\ UNCHANGED <<authVars, upload>>
    \/ StepRoot /\ UNCHANGED <<authVars, upload>>
    \/ StoreFails /\ UNCHANGED <<authVars, upload>>

SpecCascade == Init /\ [][NextCascade]_vars

\* The cascading deletes run statement by statement while creates of other
\* requests are served between their statements.  Every create names a
\* parent that exists when it is served.
NextRace ==
    \/ Created < MaxCascadeNew /\ UNCHANGED <<authVars, stepVars>>
          /\ \E a \in ExistingIds("article") : CreateChapter(a)
    \/ Created < MaxCascadeNew /\ UNCHANGED <<authVars, stepVars>>
          /\ \E c \in ExistingIds("chapter") : CreateTopic(c)
    \/ Created < MaxCascadeNew /\ UNCHANGED <<authVars, stepVars>>
          /\ \E t \in ExistingIds("topic") : CreateContent(t)
    \/ Created < MaxCascadeNew /\ UNCHANGED <<authVars, stepVars>>
          /\ \E pt \in ParentTypes : \E p \in ExistingIds(pt) : UploadPdf(pt, p)
    \/ UNCHANGED <<authVars, upload>>
          /\ \E op \in CascadeOps : \E id \in RequestIds : BeginDelete(op, id)
    \/ StepUnlink /\ UNCHANGED <<authVars, upload>>
    \/ StepPdfs /\ UNCHANGED <<authVars, upload>>
    \/ StepContents /\ UNCHANGED <<authVars, upload>>
    \/ StepTopics /\ UNCHANGED <<authVars, upload>>
    \/ StepChapters /\ UNCHANGED <<authVars, upload>>
    \/ StepRoot /\ UNCHANGED <<authVars, upload>>

SpecRace == Init /\ [][NextRace]_vars

\* The gallery with an image upload and a delete handler in progress at the
\* same time, each advancing one awaited call per step.
NextUpload ==
    \/ MediaCreated < MaxUploadMedia /\ UNCHANGED <<authVars, stepVars>>
          /\ \E hasThumb \in BOOLEAN : \E titleOk \in BOOLEAN :
                CreateGalleryFolder(hasThumb, titleOk)
    \/ UNCHANGED authVars
          /\ \E f \in GalleryRequestIds : \E n \in 0..MaxUpload :
                MediaCreated + n <= MaxUploadMedia /\ UploadImagesFind(f, n)
    \/ UploadImagesInsert /\ UNCHANGED authVars
    \/ UNCHANGED <<authVars, upload>>
          /\ \E op \in {"deleteFolder", "deleteImage"} :
                \E id \in GalleryRequestIds : BeginDelete(op, id)
    \/ StepRoot /\ UNCHANGED <<authVars, upload>>
    \/ StepImages /\ UNCHANGED <<authVars, upload>>
    \/ StepRmSync /\ UNCHANGED <<authVars, upload>>
    \/ StepUnlinkSync /\ UNCHANGED <<authVars, upload>>

SpecUpload == Init /\ [][NextUpload]_vars

\* Sessions that the requests in progress are still to create.
Pending == Cardinality({k \in 1..MaxCalls : calls[k].at = "create"})

\* The request in slot k has not read a session whose wrong-code budget is
\* spent while carrying a wrong code for it.
WithinMisses(k, budget) ==
    \A s \in calls'[k].read :
        hashOtp(calls'[k].identifier, calls'[k].otp) # s.otpHash =>
            misses[s.id] < budget

\* One user's OTP requests and verifications, up to MaxCalls of them in
\* progress at a time and interleaved at their awaits; several sessions,
\* few wrong codes.
NextOtpRace ==
    \/ Cardinality(users) < MaxUsers /\ UNCHANGED <<mediaVars, stepVars, raceVars, db>>
          /\ \E e \in RawEmails : \E ph \in Phones \cup {NoPhone} :
                \E pw \in SignupPasswords : Signup(e, ph, pw)
    \/ UNCHANGED <<mediaVars, stepVars, db>>
          /\ nextSessionId + Pending <= MaxRaceSessions
          /\ \E k \in 1..MaxCalls : \E t \in Targets : \E pw \in Passwords :
                RequestOtpInvalidate(k, t[1], t[2], pw)
    \/ UNCHANGED <<mediaVars, stepVars, db>>
          /\ \E k \in 1..MaxCalls : \E otp \in Codes : \E delivered \in BOOLEAN :
                RequestOtpCreate(k, otp, delivered)
    \/ UNCHANGED <<mediaVars, stepVars, db>>
          /\ \E k \in 1..MaxCalls : \E t \in Targets : \E pw \in Passwords :
                \E otp \in Codes :
                    /\ VerifyOtpFind(k, t[1], t[2], pw, otp)
                    /\ WithinMisses(k, MaxRaceMisses)
    \/ UNCHANGED <<mediaVars, stepVars, db>>
          /\ \E k \in 1..MaxCalls : VerifyOtpEvaluate(k)

SpecOtpRace == Init /\ [][NextOtpRace]_vars

\* The same with one session per run and wrong codes up to past the
\* attempt limit.
NextAttemptRace ==
    \/ Cardinality(users) < MaxUsers /\ UNCHANGED <<mediaVars, stepVars, raceVars, db>>
          /\ \E e \in RawEmails : \E ph \in Phones \cup {NoPhone} :
                \E pw \in SignupPasswords : Signup(e, ph, pw)
    \/ UNCHANGED <<mediaVars, stepVars, db>>
          /\ nextSessionId + Pending <= MaxOtps
          /\ \E k \in 1..MaxCalls : \E t \in Targets : \E pw \in Passwords :
                RequestOtpInvalidate(k, t[1], t[2], pw)
    \/ UNCHANGED <<mediaVars, stepVars, db>>
          /\ \E k \in 1..MaxCalls : \E otp \in Codes : \E delivered \in BOOLEAN :
                RequestOtpCreate(k, otp, delivered)
    \/ UNCHANGED <<mediaVars, stepVars, db>>
          /\ \E k \in 1..MaxCalls : \E t \in Targets : \E pw \in Passwords :
                \E otp \in Codes :
                    /\ VerifyOtpFind(k, t[1], t[2], pw, otp)
                    /\ WithinMisses(k, MaxMisses)
    \/ UNCHANGED <<mediaVars, stepVars, db>>
          /\ \E k \in 1..MaxCalls : VerifyOtpEvaluate(k)

SpecAttemptRace == Init /\ [][NextAttemptRace]_vars

\* ------------------------------------------------- database readiness
\* The connection is down: never connected, a connect attempt failed, or a
\* 'disconnected' or 'error' event was the last connection event.
Down(d) == d.last \in {"none", "failed", "disconnected", "error"}

\* start(): mongoose.connect is called before app.listen.
Start ==
    /\ db["server"].connect = "null"
    /\ db' = [db EXCEPT !["server"].connect = "pending"]

\* mongoose.connect resolves: the connection emits 'connected'; start()
\* goes on to app.listen; in api/index.js the then-callback sets DB_READY
\* and every requireDb awaiting the promise calls next().
ConnectSucceeds(e) ==
    /\ db[e].connect = "pending"
    /\ db' = [db EXCEPT ![e] =
                 [@ EXCEPT !.connect = "resolved", !.last = "connected",
                           !.DB_READY = TRUE, !.listening = TRUE,
                           !.waiting = 0,
                           !.reply = IF db[e].waiting > 0
                                     THEN [n |-> db[e].requests, status |-> 200]
                                     ELSE @]]

\* mongoose.connect rejects: start() exits the process; in api/index.js the
\* catch-callback clears DB_READY and rethrows, and every requireDb awaiting
\* the promise answers 503.
ConnectFails(e) ==
    /\ db[e].connect = "pending"
    /\ db' = [db EXCEPT ![e] =
                 [@ EXCEPT !.connect = "rejected", !.last = "failed",
                           !.DB_READY = FALSE,
                           !.waiting = 0,
                           !.reply = IF db[e].waiting > 0
                                     THEN [n |-> db[e].requests, status |-> 503]
                                     ELSE @]]

ConnectionEvents == {"connected", "disconnected", "error"}

\* mongoose.connection.on("connected" | "disconnected" | "error", ...) on a
\* connection that was established once; the driver reconnects by itself.
ConnectionEvent(e, event) ==
    /\ db[e].connect = "resolved"
    /\ db[e].last # event
    /\ db' = [db EXCEPT ![e] =
                 [@ EXCEPT !.last = event, !.DB_READY = (event = "connected")]]

\* requireDb of server.js: next() (200) when DB_READY, else 503.
requireDb_server ==
    LET d == db["server"]
    IN  /\ d.listening
        /\ d.requests < MaxRequests
        /\ db' = [db EXCEPT !["server"] =
                     [@ EXCEPT !.requests = @ + 1,
                               !.reply = [n |-> d.requests + 1,
                                          status |-> IF d.DB_READY THEN 200
                                                     ELSE 503]]]

\* requireDb of api/index.js: await connectMongoOnce(), then next(); 503
\* when the awaited promise rejects.  connectMongoOnce returns at once when
\* DB_READY, returns the promise made earlier when there is one, and makes
\* one otherwise.
requireDb_serverless ==
    LET d == db["serverless"]
        answer(status) == [d EXCEPT !.requests = @ + 1,
                                    !.reply = [n |-> d.requests + 1,
                                               status |-> status]]
    IN  /\ d.requests < MaxRequests
        /\ db' = [db EXCEPT !["serverless"] =
                     IF d.DB_READY THEN answer(200)
                     ELSE IF d.connect = "null"
                     THEN [d EXCEPT !.requests = @ + 1, !.waiting = @ + 1,
                                    !.connect = "pending"]
                     ELSE IF d.connect = "pending"
                     THEN [d EXCEPT !.requests = @ + 1, !.waiting = @ + 1]
                     ELSE IF d.connect = "resolved" THEN answer(200)
                     ELSE answer(503)]

\* Both entry points with their connections coming up, failing and
\* dropping, and requests arriving at requireDb.
NextDb ==
    \/ Start /\ UNCHANGED <<mediaVars, stepVars, sessionVars>>
    \/ UNCHANGED <<mediaVars, stepVars, sessionVars>>
          /\ \E e \in EntryPoints : ConnectSucceeds(e)
    \/ UNCHANGED <<mediaVars, stepVars, sessionVars>>
          /\ \E e \in EntryPoints : ConnectFails(e)
    \/ UNCHANGED <<mediaVars, stepVars, sessionVars>>
          /\ \E e \in EntryPoints : \E event \in ConnectionEvents :
                ConnectionEvent(e, event)
    \/ requireDb_server /\ UNCHANGED <<mediaVars, stepVars, sessionVars>>
    \/ requireDb_serverless /\ UNCHANGED <<mediaVars, stepVars, sessionVars>>

SpecDb == Init /\ [][NextDb]_vars

\* The addresses submitted to signup in SpecAccounts.
SignupEmails == RawEmails \cup {"test@example.com"}

\* Account creation (signup and the seed script), the admin login and the
\* admin gate in front of the write routes.
NextAccounts ==
    \/ UNCHANGED <<mediaVars, stepVars, raceVars, db>>
          /\ \E e \in RawEmails : \E pw \in AdminPasswords : AdminLogin(e, pw)
    \/ UNCHANGED <<mediaVars, stepVars, raceVars, db>>
          /\ \E e \in SignupEmails : \E ph \in Phones \cup {NoPhone} :
                \E pw \in SignupPasswords :
                    /\ Signup(e, ph, pw)
                    /\ nextUserId' <= MaxAccounts + 1
    \/ UNCHANGED <<mediaVars, stepVars, raceVars, db>> /\ seedDatabase /\ nextUserId' <= MaxAccounts + 1
    \/ UNCHANGED <<mediaVars, stepVars, raceVars, db>>
          /\ \E m \in Methods : \E h \in Headers : \E d \in DecodedTokens :
                adminForWrites(m, h, d)

SpecAccounts == Init /\ [][NextAccounts]_vars

\* ------------------------------------------------------------- properties
AllIds == 0..(Cardinality(InitialIds) + MaxNew)

AllGalleryIds == 0..MaxMedia

DeleteOps == {"deleteArticle", "deleteChapter", "deleteTopic", "deleteContent"}

\* C1: a successful deleteArticle(a) leaves no Article a, no Chapter of a, no
\* Topic or Content that descended from a, and no PdfAttachment on a or on
\* any of a's former descendants.
C1_DeleteArticleRemovesTree ==
    [][\A a \in AllIds :
        (resp'.op = "deleteArticle" /\ resp'.status = 200 /\ DeleteArticle(a)) =>
            LET chs == {c \in chapters : c.articleId = a}
                tps == {t \in topics : \E c \in chs : t.chapterId = c.id}
                cts == {x \in contents : \E t \in tps : x.topicId = t.id}
                Below(pt, id) ==
                    \/ pt = "article" /\ id = a
                    \/ pt = "chapter" /\ \E c \in chs : c.id = id
                    \/ pt = "topic"   /\ \E t \in tps : t.id = id
                    \/ pt = "content" /\ \E x \in cts : x.id = id
            IN  /\ a \notin articles'
                /\ \A c \in chapters' : c.articleId # a
                /\ topics' \cap tps = {}
                /\ contents' \cap cts = {}
                /\ \A p \in pdfs' : ~Below(p.parentType, p.parentId)]_vars

\* C1 witness: a deleteArticle that removed the article, its chapter, topic
\* and content and two attachments.
C1_Witness ==
    /\ resp.op = "deleteArticle"
    /\ resp.status = 200
    /\ resp.deleted >= 6
    /\ articles = {} /\ chapters = {} /\ topics = {} /\ contents = {} /\ pdfs = {}

\* Nothing in the store is, or refers to, the entity id of the given kind.
Absent(kind, id) ==
    /\ \A p \in pdfs : ~(p.parentType = kind /\ p.parentId = id)
    /\ CASE kind = "article" -> id \notin articles
                                /\ \A c \in chapters : c.articleId # id
         [] kind = "chapter" -> (\A c \in chapters : c.id # id)
                                /\ \A t \in topics : t.chapterId # id
         [] kind = "topic"   -> (\A t \in topics : t.id # id)
                                /\ \A x \in contents : x.topicId # id
         [] kind = "content" -> \A x \in contents : x.id # id

\* The op a delete of the given kind reports.
DeleteOpOf(kind) ==
    CASE kind = "article" -> "deleteArticle"
      [] kind = "chapter" -> "deleteChapter"
      [] kind = "topic"   -> "deleteTopic"
      [] kind = "content" -> "deleteContent"

DeleteOf(kind, id) ==
    CASE kind = "article" -> DeleteArticle(id)
      [] kind = "chapter" -> DeleteChapter(id)
      [] kind = "topic"   -> DeleteTopic(id)
      [] kind = "content" -> DeleteContent(id)

\* C2: the four content deletes answer success whether or not the id denotes
\* an entity; a successful delete leaves nothing of the id behind, and a
\* delete of an id the store holds nothing of answers success and changes
\* nothing, so a repeated delete succeeds again and leaves the store as is.
C2_DeleteIdempotent ==
    [][\A kind \in ParentTypes : \A id \in AllIds :
        (resp'.op = DeleteOpOf(kind) /\ DeleteOf(kind, id)) =>
            /\ resp'.status = 200
            /\ Absent(kind, id)'
            /\ Absent(kind, id) => UNCHANGED <<contentVars, galleryVars>>]_vars

\* C2 witness: a content delete that answered success and removed nothing,
\* after the initial records had been deleted.
C2_Witness ==
    /\ resp.op \in DeleteOps
    /\ resp.status = 200
    /\ resp.deleted = 0
    /\ articles = {} /\ contents = {}

\* C3: deleteGalleryFolder, deleteGalleryImage and the PdfAttachment delete,
\* called with an id that denotes no record, answer 404 and change no record
\* and no blob.
C3_SingleDeleteNotFound ==
    [][/\ \A f \in AllGalleryIds :
            (f \notin galleryFolders /\ DeleteGalleryFolder(f)) =>
                resp'.status = 404 /\ UNCHANGED <<contentVars, galleryVars>>
       /\ \A i \in AllGalleryIds :
            ((\A g \in galleryImages : g.id # i) /\ DeleteGalleryImage(i)) =>
                resp'.status = 404 /\ UNCHANGED <<contentVars, galleryVars>>
       /\ \A d \in AllIds \cup 0..(Cardinality(InitialIds) + MaxMedia) :
            ((\A p \in pdfs : p.id # d) /\ DeletePdf(d)) =>
                resp'.status = 404 /\ UNCHANGED <<contentVars, galleryVars>>]_vars

\* C3 witness: a single-record delete answered 404 while records and blobs
\* that it could have touched exist.
C3_Witness ==
    /\ resp.op \in {"deleteFolder", "deleteImage", "deletePdf"}
    /\ resp.status = 404
    /\ pdfs # {} /\ pdfFiles # {}
    /\ galleryImages # {} /\ galleryFiles # {}

\* ------------------------------------------------------- auth properties
\* The identifier a request on target t (channel, raw identifier) resolves to.
Identifier(t) == IF t[1] = "email" THEN normalizeEmail(t[2]) ELSE t[2]

\* The users a request on target t with password pw authenticates as.
Authenticated(t, pw) ==
    {u \in FindUser(t[1], Identifier(t)) : BcryptCompare(pw, u.passwordHash)}

\* Every stored session of the triple (u, channel, identifier).
TripleSessions(u, t) ==
    {s \in otpSessions : /\ s.userId = u.id /\ s.channel = t[1]
                         /\ s.identifier = Identifier(t)}

SameTriple(s1, s2) ==
    /\ s1.userId = s2.userId /\ s1.channel = s2.channel
    /\ s1.identifier = s2.identifier

\* C4 (as stated): once a later session of the same triple exists, a
\* verify-otp with the correct password and the code of the earlier,
\* never-verified session, made inside that session's window, fails and
\* issues no token.
C4_StaleCodeFails ==
    [][authResp'.op = "verifyOtp" =>
        \A t \in Targets : \A pw \in Passwords : \A otp \in Codes :
        \A u \in Authenticated(t, pw) : \A s1 \in TripleSessions(u, t) :
            ( /\ \E s2 \in TripleSessions(u, t) : s2.id > s1.id
              /\ s1.tokens = 0
              /\ s1.otpHash = hashOtp(Identifier(t), otp)
              /\ now <= s1.expiresAt
              /\ VerifyOtpAction(t[1], t[2], pw, otp) )
            => /\ authResp'.status # 200
               /\ authResp'.token = NoToken]_vars

\* C4 (amended): a later request-otp leaves the earlier session of the
\* triple used, and the earlier code, submitted with the correct password
\* inside the earlier window, fails and issues no token provided no later
\* session of the triple drew the same code.
C4_StaleCodeRejected ==
    [][authResp'.op = "verifyOtp" =>
        \A t \in Targets : \A pw \in Passwords : \A otp \in Codes :
        \A u \in Authenticated(t, pw) : \A s1 \in TripleSessions(u, t) :
            LET newer == {s2 \in TripleSessions(u, t) : s2.id > s1.id}
            IN  ( /\ newer # {}
                  /\ \A s2 \in newer : s2.otpHash # s1.otpHash
                  /\ s1.tokens = 0
                  /\ s1.otpHash = hashOtp(Identifier(t), otp)
                  /\ now <= s1.expiresAt
                  /\ VerifyOtpAction(t[1], t[2], pw, otp) )
                => /\ s1.used
                   /\ authResp'.status # 200
                   /\ authResp'.token = NoToken
                   /\ users' = users]_vars

\* C4 witness: the code of an invalidated session was just refused inside its
\* window, counting as a wrong attempt against the session that replaced it.
C4_Witness ==
    /\ authResp.op = "verifyOtp"
    /\ authResp.error = "Invalid OTP"
    /\ \E s1 \in otpSessions : \E s2 \in otpSessions :
          /\ SameTriple(s1, s2) /\ s1.id < s2.id
          /\ s1.used /\ s1.tokens = 0 /\ now <= s1.expiresAt
          /\ s1.otpHash # s2.otpHash
          /\ ~s2.used /\ s2.attempts >= 1

\* C5: a verify-otp with the correct password and the code of the current
\* session, before expiresAt and with attempts < maxAttempts, answers 200 with
\* a token and consumes the session; once the channel has been verified and no
\* unused session of the triple is left, verify-otp answers 'No OTP found'
\* without a token; no session ever yields more than one token.
C5_CodeYieldsTokenOnce ==
    /\ [](\A s \in otpSessions : s.tokens <= 1 /\ (s.tokens = 1 => s.used))
    /\ [][authResp'.op = "verifyOtp" =>
        \A t \in Targets : \A pw \in Passwords : \A otp \in Codes :
          \A u \in Authenticated(t, pw) :
              /\ \A s \in LatestUnused(u.id, t[1], Identifier(t)) :
                    ( /\ s.otpHash = hashOtp(Identifier(t), otp)
                      /\ now <= s.expiresAt
                      /\ s.attempts < s.maxAttempts
                      /\ VerifyOtpAction(t[1], t[2], pw, otp) )
                    => /\ authResp'.status = 200
                       /\ authResp'.token # NoToken
                       /\ authResp'.token.userId = ToString(u.id)
                       /\ [s EXCEPT !.used = TRUE, !.tokens = 1] \in otpSessions'
              /\ ( /\ UnusedSessions(u.id, t[1], Identifier(t)) = {}
                   /\ IF t[1] = "email" THEN u.isEmailVerified
                      ELSE u.isPhoneVerified
                   /\ VerifyOtpAction(t[1], t[2], pw, otp) )
                 => /\ authResp'.status = 400
                    /\ authResp'.error = "No OTP found. Request again."
                    /\ authResp'.token = NoToken
                    /\ UNCHANGED <<users, otpSessions>>]_vars

\* C5 witness: the code that produced a token was submitted again and found
\* no session.
C5_Witness ==
    /\ authResp.op = "verifyOtp"
    /\ authResp.error = "No OTP found. Request again."
    /\ \E s \in otpSessions : s.used /\ s.tokens = 1 /\ now <= s.expiresAt

\* C6: attempts never exceeds maxAttempts = 5, and a verify-otp with the
\* correct password against an unexpired session whose attempts reached
\* maxAttempts answers 429 'Too many attempts', marks the session used and
\* issues no token, whatever code it submits.
C6_AttemptsExhausted ==
    /\ [](\A s \in otpSessions :
            s.maxAttempts = 5 /\ s.attempts <= s.maxAttempts)
    /\ [][authResp'.op = "verifyOtp" =>
        \A t \in Targets : \A pw \in Passwords : \A otp \in Codes :
          \A u \in Authenticated(t, pw) :
            \A s \in LatestUnused(u.id, t[1], Identifier(t)) :
              ( /\ s.attempts >= 5
                /\ now <= s.expiresAt
                /\ VerifyOtpAction(t[1], t[2], pw, otp) )
              => /\ authResp'.status = 429
                 /\ authResp'.error = "Too many attempts. Request new OTP."
                 /\ authResp'.token = NoToken
                 /\ otpSessions' = (otpSessions \ {s})
                                   \cup {[s EXCEPT !.used = TRUE]}
                 /\ users' = users]_vars

\* C6 witness: the sixth call against a session with five wrong attempts was
\* refused with 429 and the session closed without a token.
C6_Witness ==
    /\ authResp.op = "verifyOtp"
    /\ authResp.status = 429
    /\ \E s \in otpSessions :
          s.used /\ s.attempts = 5 /\ s.tokens = 0 /\ now <= s.expiresAt

\* C7 (as stated): whenever a session of the triple was never used and its
\* expiresAt has passed, a verify-otp with the correct password answers
\* 'OTP expired' without a token, whatever code it submits.
C7_ExpiredAlwaysReported ==
    [][authResp'.op = "verifyOtp" =>
        \A t \in Targets : \A pw \in Passwords : \A otp \in Codes :
        \A u \in Authenticated(t, pw) :
            ( /\ \/ \E s \in TripleSessions(u, t) : ~s.used /\ s.expiresAt < now
                 \/ \E r \in purged : /\ r.userId = u.id /\ r.channel = t[1]
                                      /\ r.identifier = Identifier(t)
              /\ VerifyOtpAction(t[1], t[2], pw, otp) )
            => /\ authResp'.error = "OTP expired. Request again."
               /\ authResp'.token = NoToken]_vars

\* C7 (amended): a verify-otp with the correct password made after the
\* expiresAt of a never-used session, with no OTP requested for the triple
\* since, issues no token whatever code it submits: it answers 'OTP expired'
\* and marks the session used while the session is still stored, and
\* 'No OTP found' once the TTL index has removed it.
C7_ExpiredNeverVerifies ==
    [][authResp'.op = "verifyOtp" =>
        \A t \in Targets : \A pw \in Passwords : \A otp \in Codes :
        \A u \in Authenticated(t, pw) :
              /\ \A s \in LatestUnused(u.id, t[1], Identifier(t)) :
                    ( /\ s.expiresAt < now
                      /\ VerifyOtpAction(t[1], t[2], pw, otp) )
                    => /\ authResp'.status = 400
                       /\ authResp'.error = "OTP expired. Request again."
                       /\ authResp'.token = NoToken
                       /\ otpSessions' = (otpSessions \ {s})
                                         \cup {[s EXCEPT !.used = TRUE]}
                       /\ users' = users
              /\ ( /\ UnusedSessions(u.id, t[1], Identifier(t)) = {}
                   /\ \E r \in purged : /\ r.userId = u.id /\ r.channel = t[1]
                                        /\ r.identifier = Identifier(t)
                   /\ VerifyOtpAction(t[1], t[2], pw, otp) )
                 => /\ authResp'.status = 400
                    /\ authResp'.error = "No OTP found. Request again."
                    /\ authResp'.token = NoToken
                    /\ UNCHANGED <<users, otpSessions>>]_vars

\* C7 witness: a verify-otp after the window found the never-used session
\* still stored, answered 'OTP expired' and closed it without a token.
C7_Witness ==
    /\ authResp.op = "verifyOtp"
    /\ authResp.error = "OTP expired. Request again."
    /\ \E s \in otpSessions : s.used /\ s.tokens = 0 /\ s.expiresAt < now
    /\ \A u \in users : u.lastLoginAt = Never

\* C8: no triple ever has two sessions with used = false; a request-otp that
\* creates a session creates exactly one, with attempts 0, maxAttempts 5,
\* used false and expiresAt five minutes after now, leaves every earlier
\* session of that triple used, and changes no session of another triple.
C8_OneUnusedSessionPerTriple ==
    /\ [](\A s1 \in otpSessions : \A s2 \in otpSessions :
            (SameTriple(s1, s2) /\ ~s1.used /\ ~s2.used) => s1 = s2)
    /\ [][authResp'.op = "requestOtp" =>
        \A t \in Targets : \A pw \in Passwords : \A otp \in Codes :
          \A delivered \in BOOLEAN : \A u \in Authenticated(t, pw) :
            ( /\ nextSessionId' # nextSessionId
              /\ RequestOtpAction(t[1], t[2], pw, otp, delivered) )
            => LET created == otpSessions' \ otpSessions
                   new == {s \in created : s.id = nextSessionId}
               IN  /\ Cardinality(new) = 1
                   /\ \A s \in new :
                         /\ s.userId = u.id /\ s.channel = t[1]
                         /\ s.identifier = Identifier(t)
                         /\ s.otpHash = hashOtp(Identifier(t), otp)
                         /\ s.attempts = 0 /\ s.maxAttempts = 5
                         /\ s.used = FALSE /\ s.expiresAt = now + 5
                   /\ \A r \in TripleSessions(u, t) :
                         [r EXCEPT !.used = TRUE] \in otpSessions'
                   /\ \A r \in otpSessions \ TripleSessions(u, t) :
                         r \in otpSessions'
                   /\ Cardinality(otpSessions') = Cardinality(otpSessions) + 1]_vars

\* C8 witness: a second request-otp for a triple, a minute after the first,
\* closed the untouched first session and left its own as the only unused one.
C8_Witness ==
    /\ authResp.op = "requestOtp"
    /\ authResp.dispatched
    /\ \E s1 \in otpSessions : \E s2 \in otpSessions :
          /\ SameTriple(s1, s2) /\ s1.id < s2.id
          /\ s1.used /\ s1.tokens = 0 /\ s1.attempts = 0
          /\ ~s2.used /\ s2.attempts = 0
          /\ s2.createdAt > s1.createdAt /\ s2.expiresAt = now + 5

\* C9: for a user with neither flag true, login/password issues no token and
\* answers a correct password with otpRequired = true, request-otp issues no
\* token, and a step that hands this user a token is a successful verify-otp;
\* such a user has never logged in.
C9_UnverifiedGetsNoToken ==
    /\ [](\A u \in users :
            (u.isEmailVerified # TRUE /\ u.isPhoneVerified # TRUE)
            => /\ u.lastLoginAt = Never
               /\ authResp.token.userId # ToString(u.id))
    /\ [][\A u \in users :
          (u.isEmailVerified # TRUE /\ u.isPhoneVerified # TRUE) =>
            /\ \A e \in RawEmails : \A pw \in Passwords :
                  ( /\ authResp'.op = "loginPassword"
                    /\ normalizeEmail(e) = u.email
                    /\ LoginPassword(e, pw) )
                  => /\ authResp'.token = NoToken
                     /\ BcryptCompare(pw, u.passwordHash)
                        => /\ authResp'.status = 200
                           /\ authResp'.otpRequired = TRUE
            /\ \A t \in Targets : \A pw \in Passwords : \A otp \in Codes :
                  \A delivered \in BOOLEAN :
                    ( /\ authResp'.op = "requestOtp"
                      /\ u \in FindUser(t[1], Identifier(t))
                      /\ RequestOtpAction(t[1], t[2], pw, otp, delivered) )
                    => authResp'.token = NoToken
            /\ authResp'.token.userId = ToString(u.id)
               => /\ authResp'.op = "verifyOtp"
                  /\ authResp'.status = 200]_vars

\* C9 witness: a never-verified user with an open OTP session logged in with
\* the right password and was told otpRequired, without a token.
C9_Witness ==
    /\ authResp.op = "loginPassword"
    /\ authResp.status = 200
    /\ authResp.otpRequired
    /\ authResp.token = NoToken
    /\ \E u \in users : /\ u.isEmailVerified # TRUE /\ u.isPhoneVerified # TRUE
                        /\ u.lastLoginAt = Never
                        /\ \E s \in otpSessions : s.userId = u.id /\ ~s.used

\* C10: a request-otp with the correct password for a channel whose flag is
\* already true answers 200 with a token and otpRequired = false, sets
\* lastLoginAt to now, dispatches nothing, and leaves every OtpSession as it
\* was and creates none.
C10_VerifiedChannelShortCircuit ==
    [][authResp'.op = "requestOtp" =>
        \A t \in Targets : \A pw \in Passwords : \A otp \in Codes :
        \A delivered \in BOOLEAN : \A u \in Authenticated(t, pw) :
            ( /\ IF t[1] = "email" THEN u.isEmailVerified = TRUE
                 ELSE u.isPhoneVerified = TRUE
              /\ RequestOtpAction(t[1], t[2], pw, otp, delivered) )
            => /\ authResp'.status = 200
               /\ authResp'.otpRequired = FALSE
               /\ authResp'.dispatched = FALSE
               /\ authResp'.token = signToken(u)
               /\ authResp'.token # NoToken
               /\ users' = (users \ {u}) \cup {[u EXCEPT !.lastLoginAt = now]}
               /\ UNCHANGED <<otpSessions, nextSessionId>>]_vars

\* C10 witness: with the email channel verified earlier and an unused sms
\* session open, a later request-otp on email returned a token, moved
\* lastLoginAt and left the sms session unused.
C10_Witness ==
    /\ authResp.op = "requestOtp"
    /\ authResp.status = 200
    /\ authResp.token # NoToken
    /\ ~authResp.otpRequired
    /\ now > 0
    /\ \E u \in users : u.isEmailVerified /\ ~u.isPhoneVerified
                        /\ u.lastLoginAt = now
    /\ \E s \in otpSessions : s.channel = "email" /\ s.tokens = 1 /\ s.createdAt < now
    /\ \E s \in otpSessions : s.channel = "sms" /\ ~s.used

\* C11: a verify-otp with the correct password whose code matches the current
\* session (unused, unexpired, attempts < maxAttempts) marks that session used
\* and no other, sets the flag of the requested channel true and leaves the
\* other flag as it was, sets lastLoginAt to now and answers 200 with the
\* user's token.
C11_VerifySuccessEffects ==
    [][authResp'.op = "verifyOtp" =>
        \A t \in Targets : \A pw \in Passwords : \A otp \in Codes :
          \A u \in Authenticated(t, pw) :
            \A s \in LatestUnused(u.id, t[1], Identifier(t)) :
              ( /\ s.otpHash = hashOtp(Identifier(t), otp)
                /\ now <= s.expiresAt
                /\ s.attempts < s.maxAttempts
                /\ VerifyOtpAction(t[1], t[2], pw, otp) )
              => /\ \E s2 \in otpSessions' :
                       /\ s2.id = s.id /\ s2.used
                       /\ otpSessions' \ {s2} = otpSessions \ {s}
                 /\ users' = (users \ {u}) \cup
                       {[u EXCEPT
                           !.isEmailVerified = IF t[1] = "email" THEN TRUE ELSE @,
                           !.isPhoneVerified = IF t[1] = "sms" THEN TRUE ELSE @,
                           !.lastLoginAt = now]}
                 /\ authResp'.status = 200
                 /\ authResp'.token = signToken(u)
                 /\ authResp'.token # NoToken]_vars

\* C11 witness: a code verified on the sms channel set isPhoneVerified and
\* lastLoginAt, left isEmailVerified false and left the open email session
\* unused.
C11_Witness ==
    /\ authResp.op = "verifyOtp"
    /\ authResp.status = 200
    /\ authResp.token # NoToken
    /\ \E u \in users : /\ u.isPhoneVerified = TRUE /\ u.isEmailVerified = FALSE
                        /\ u.lastLoginAt = now
    /\ \E s \in otpSessions : s.channel = "sms" /\ s.used /\ s.tokens = 1
    /\ \E s \in otpSessions : s.channel = "email" /\ ~s.used

\* C12: a verify-otp with the correct password and a wrong code against the
\* current session (unexpired, attempts < maxAttempts) adds exactly one to its
\* attempts, leaves it unused, changes nothing else and answers 401
\* 'Invalid OTP' without a token; and a session that has taken wrong attempts
\* but fewer than maxAttempts still verifies the correct code before expiresAt.
C12_WrongCodeCountsOnce ==
    [][authResp'.op = "verifyOtp" =>
        \A t \in Targets : \A pw \in Passwords : \A otp \in Codes :
          \A u \in Authenticated(t, pw) :
            \A s \in LatestUnused(u.id, t[1], Identifier(t)) :
              /\ ( /\ s.otpHash # hashOtp(Identifier(t), otp)
                   /\ now <= s.expiresAt
                   /\ s.attempts < s.maxAttempts
                   /\ VerifyOtpAction(t[1], t[2], pw, otp) )
                 => /\ otpSessions' = (otpSessions \ {s}) \cup
                          {[s EXCEPT !.attempts = s.attempts + 1]}
                    /\ \A s2 \in otpSessions' : s2.id = s.id => ~s2.used
                    /\ users' = users
                    /\ authResp'.status = 401
                    /\ authResp'.error = "Invalid OTP"
                    /\ authResp'.token = NoToken
              /\ ( /\ s.otpHash = hashOtp(Identifier(t), otp)
                   /\ now <= s.expiresAt
                   /\ s.attempts >= 1 /\ s.attempts < s.maxAttempts
                   /\ VerifyOtpAction(t[1], t[2], pw, otp) )
                 => /\ authResp'.status = 200
                    /\ authResp'.token # NoToken]_vars

\* C12 witness: the correct code was accepted on a session that had already
\* taken four wrong attempts.
C12_Witness ==
    /\ authResp.op = "verifyOtp"
    /\ authResp.status = 200
    /\ authResp.token # NoToken
    /\ \E s \in otpSessions : s.used /\ s.tokens = 1 /\ s.attempts = 4

\* C13: a verify-otp whose password does not match the stored hash of the
\* user it names answers 401 without a token, whatever code it submits, and
\* changes no session and no user.
C13_WrongPasswordNeverVerifies ==
    [][authResp'.op = "verifyOtp" =>
        \A t \in Targets : \A pw \in Passwords : \A otp \in Codes :
          \A u \in FindUser(t[1], Identifier(t)) :
            ( /\ u.passwordHash # BcryptHash(pw)
              /\ VerifyOtpAction(t[1], t[2], pw, otp) )
            => /\ authResp'.status = 401
               /\ authResp'.error = "Invalid password"
               /\ authResp'.token = NoToken
               /\ UNCHANGED <<users, otpSessions>>]_vars

\* C13 witness: a verify-otp with a wrong password was refused while an open,
\* unexpired session of the user was waiting for its code.
C13_Witness ==
    /\ authResp.op = "verifyOtp"
    /\ authResp.status = 401
    /\ authResp.error = "Invalid password"
    /\ \E s \in otpSessions : ~s.used /\ s.attempts = 0 /\ now <= s.expiresAt
    /\ \A u \in users : u.lastLoginAt = Never


C15_NoUserWithAdminEmail ==
    \A u \in users : u.email # STATIC_ADMIN_EMAIL_FINAL

C17_BlobBeforeRecord ==
    [][/\ \A p \in pdfs \ pdfs' :
             BlobRef("pdf", NoSuchId, p.fileName) \in attempted
       /\ \A i \in galleryImages \ galleryImages' :
             BlobRef("gallery", i.folderId, i.fileName) \in attempted]_vars

\* C18: a delete of a stored Pdf, GalleryImage or GalleryFolder removes the
\* records and answers 200 whether or not the removal of the blobs failed.
C18_BlobFailureNeverSurfaced ==
    [][/\ \A p \in AllIds :
             (resp'.op = "deletePdf" /\ p \in IdsOf(pdfs) /\ DeletePdf(p)) =>
                 resp'.status = 200 /\ p \notin IdsOf(pdfs')
       /\ \A i \in AllGalleryIds :
             (resp'.op = "deleteImage" /\ i \in IdsOf(galleryImages)
                 /\ DeleteGalleryImage(i)) =>
                 resp'.status = 200 /\ i \notin IdsOf(galleryImages')
       /\ \A f \in AllGalleryIds :
             (resp'.op = "deleteFolder" /\ f \in galleryFolders
                 /\ DeleteGalleryFolder(f)) =>
                 /\ resp'.status = 200
                 /\ f \notin galleryFolders'
                 /\ \A i \in galleryImages' : i.folderId # f]_vars

\* C19: a delete of a stored GalleryFolder f that answers success removes
\* exactly the GalleryImage records of f, every file in f's directory (the
\* blobs of those records among them) and the record of f; the images,
\* files and records of every other folder stay as they were.
C19_DeleteFolderRemovesItsImages ==
    [][\A f \in AllGalleryIds :
        (/\ resp'.op = "deleteFolder"
         /\ resp'.status = 200
         /\ f \in galleryFolders
         /\ DeleteGalleryFolder(f)) =>
            /\ galleryFolders' = galleryFolders \ {f}
            /\ galleryImages' = {i \in galleryImages : i.folderId # f}
            /\ galleryFiles' = {x \in galleryFiles : x.dir # f}
            /\ \A i \in galleryImages : i.folderId = f =>
                  [dir |-> f, name |-> i.fileName] \notin galleryFiles'
            /\ resp'.deleted =
                  Cardinality({i \in galleryImages : i.folderId = f}) + 1]_vars

\* A folder with at least one image was deleted while another folder, with
\* a stored file of its own, is still there.
C19_Witness ==
    /\ resp.op = "deleteFolder"
    /\ resp.status = 200
    /\ resp.deleted >= 2
    /\ \E g \in galleryFolders : \E x \in galleryFiles : x.dir = g

\* C20: every Pdf record that an upload stores names, as (parentType,
\* parentId), an entity of that type that exists when the record is stored;
\* an upload for a parentId that denotes no such entity stores nothing.
C20_PdfParentExistsAtCreation ==
    [][\A p \in pdfs' \ pdfs : p.parentId \in ExistingIds(p.parentType)]_vars

\* C21: while cascades run on a tree that was built consistent, one request
\* at a time, every stored Chapter has its Article, every stored Topic its
\* Chapter and every stored Content its Topic, in every state: between the
\* statements of a cascade and after a store error has ended one midway.
C21_ChildrenBeforeParents ==
    /\ \A c \in chapters : c.articleId \in articles
    /\ \A t \in topics : t.chapterId \in IdsOf(chapters)
    /\ \A c \in contents : c.topicId \in IdsOf(topics)

\* A deleteArticle was ended by a store error after it had deleted the
\* Contents and the Topics and before it deleted the Chapters.
C21_Witness ==
    /\ pc = Idle
    /\ resp = Reply("deleteArticle", 500, 0)
    /\ contents = {}
    /\ topics = {}
    /\ chapters # {}
    /\ articles # {}

\* C22: deleteChapter(c), deleteTopic(t) and deleteContent(x) remove the
\* record they name, every Topic and Content below it and every Pdf record
\* attached to it or to one of those, and nothing else: every other
\* Article, Chapter, Topic, Content and Pdf record is kept as it was, and
\* only files of removed Pdf records leave the upload directory.
C22_DeleteExactlySubtree ==
    [][\A id \in AllIds :
        LET below(kind) ==
              \* the Topics and Contents below the record of that kind
              LET ts == IF kind = "deleteChapter"
                        THEN {t \in topics : t.chapterId = id} ELSE {}
                  tids == IF kind = "deleteTopic" THEN {id} ELSE {t.id : t \in ts}
                  xs == IF kind = "deleteContent" THEN {}
                        ELSE {x \in contents : x.topicId \in tids}
                  xids == IF kind = "deleteContent" THEN {id} ELSE {x.id : x \in xs}
                  ps == {p \in pdfs :
                           \/ kind = "deleteChapter" /\ p.parentType = "chapter"
                                 /\ p.parentId = id
                           \/ p.parentType = "topic" /\ p.parentId \in tids
                                 /\ kind # "deleteContent"
                           \/ p.parentType = "content" /\ p.parentId \in xids}
              IN  [topics |-> ts, contents |-> xs, pdfs |-> ps]
            exact(kind) ==
              /\ articles' = articles
              /\ chapters' = IF kind = "deleteChapter"
                             THEN {c \in chapters : c.id # id} ELSE chapters
              /\ topics' = IF kind = "deleteTopic"
                           THEN {t \in topics : t.id # id}
                           ELSE topics \ below(kind).topics
              /\ contents' = IF kind = "deleteContent"
                             THEN {x \in contents : x.id # id}
                             ELSE contents \ below(kind).contents
              /\ pdfs' = pdfs \ below(kind).pdfs
              /\ pdfFiles' \subseteq pdfFiles
              /\ pdfFiles \ pdfFiles' \subseteq
                     {p.fileName : p \in below(kind).pdfs}
        IN  /\ (resp'.op = "deleteChapter" /\ DeleteChapter(id)) =>
                   exact("deleteChapter")
            /\ (resp'.op = "deleteTopic" /\ DeleteTopic(id)) =>
                   exact("deleteTopic")
            /\ (resp'.op = "deleteContent" /\ DeleteContent(id)) =>
                   exact("deleteContent")]_vars

\* A chapter with a topic below it was deleted while another chapter, a
\* topic and a content outside its subtree are still stored.
C22_Witness ==
    /\ resp.op = "deleteChapter"
    /\ resp.deleted >= 2
    /\ chapters # {}
    /\ topics # {}
    /\ contents # {}

\* C23: a child created under a parent while that parent's cascade is
\* between its lookups and its last delete can survive the cascade (the
\* state C23_Witness is reachable).  The records a cascade step leaves
\* without their parent are only such late creates: none of them is among
\* the ids the running cascade resolved.
C23_OnlyLateCreatesEscape ==
    [][LET oc == {c \in chapters' : c.articleId \in articles
                                    /\ c.articleId \notin articles'}
           ot == {t \in topics' : t.chapterId \in IdsOf(chapters)
                                  /\ t.chapterId \notin IdsOf(chapters')}
           ox == {x \in contents' : x.topicId \in IdsOf(topics)
                                    /\ x.topicId \notin IdsOf(topics')}
           oa == {p \in pdfs' : p.parentId \in ExistingIds(p.parentType)
                                /\ p.parentId \notin ExistingIds(p.parentType)'}
       IN  (oc \cup ot \cup ox \cup oa # {}) =>
              /\ pc # Idle
              /\ IdsOf(oc) \cap pc.chapterIds = {}
              /\ IdsOf(ot) \cap pc.topicIds = {}
              /\ IdsOf(ox) \cap pc.contentIds = {}
              /\ IdsOf(oa) \cap pc.pdfIds = {}]_vars

\* A deleteArticle has answered success and a Chapter created during it is
\* stored with an articleId that names no Article.
C23_Witness ==
    /\ pc = Idle
    /\ resp = Reply("deleteArticle", 200, 0)
    /\ \E c \in chapters : c.articleId \notin articles /\ c.id > 4

\* C24: a cascade whose lookups fail answers 500 and has deleted no record
\* and no file; a cascade whose later store call fails answers 500 and
\* ends there, and that step restores nothing of what the cascade has
\* already deleted.
C24_AbortKeepsPartialDeletes ==
    [][/\ \A op \in CascadeOps : \A id \in AllIds :
             (pc = Idle /\ resp'.status = 500 /\ ResolveFails(op, id)) =>
                 /\ resp' = Reply(op, 500, 0)
                 /\ pc' = Idle
                 /\ contentVars' = contentVars
       /\ (pc # Idle /\ StoreFails) =>
                 /\ resp' = Reply(pc.op, 500, 0)
                 /\ pc' = Idle
                 /\ contentVars' = contentVars]_vars

\* A deleteArticle has answered 500 after Content.deleteMany and before
\* Topic.deleteMany: the Contents are gone, the Topics, Chapters and the
\* Article are still stored.
C24_Witness ==
    /\ pc = Idle
    /\ resp = Reply("deleteArticle", 500, 0)
    /\ contents = {}
    /\ topics # {}
    /\ chapters # {}
    /\ 1 \in articles

\* C25: where overlapping request-otp calls have left several sessions of
\* one (user, channel, identifier), the session a verify-otp call picks up
\* is never one that has a later-created session of the same triple in the
\* store, and no token is ever issued on such an older session.
C25_OlderSessionUnreachable ==
    /\ [][\A k \in 1..MaxCalls :
            (calls[k] = Free /\ calls'[k].at = "evaluate") =>
                \A s \in calls'[k].read : \A r \in otpSessions :
                    SameTriple(s, r) => r.id <= s.id]_vars
    /\ [](\A s \in otpSessions : \A r \in otpSessions :
            (SameTriple(s, r) /\ s.id < r.id) => s.tokens = 0)


\* C26: a verify-otp call that answers 'Invalid OTP' stores the attempts it
\* read plus one, whatever the stored counter is by then, so the stored
\* counter never exceeds the wrong codes evaluated and can fall behind them:
\* two overlapping calls that both read n leave n + 1, and more than
\* maxAttempts wrong codes get evaluated against one session.
C26_AttemptsWrittenFromSnapshot ==
    /\ [][\A k \in 1..MaxCalls :
            (/\ calls[k].at = "evaluate"
             /\ calls'[k] = Free
             /\ authResp'.error = "Invalid OTP") =>
                \A s \in calls[k].read : \A r \in otpSessions' :
                    r.id = s.id => r.attempts = s.attempts + 1]_vars
    /\ [](\A s \in otpSessions : s.attempts <= misses[s.id])

\* More than maxAttempts wrong codes were answered 'Invalid OTP' on one
\* session, whose counter is behind them.
C26_Witness ==
    \E s \in otpSessions :
        /\ misses[s.id] > MaxAttempts
        /\ s.attempts < misses[s.id]


\* C27: for one OtpSession at most one verify-otp call ever issues a token,
\* also when calls carrying the correct code overlap.
C27_OneTokenPerSession ==
    \A s \in otpSessions : s.tokens <= 1


\* C28 (as stated): a token that passes requireAdmin is issued only by
\* admin/login, and only when the submitted email and the submitted password
\* are equal to the two reserved constants; no token issued to a signed-up
\* User passes requireAdmin.
C28_AdminTokenOnlyFromExactCredentials ==
    /\ [](requireAdmin("PUT", authResp.token).status = 200 =>
              authResp.op = "adminLogin")
    /\ [][\A e \in RawEmails : \A pw \in AdminPasswords :
            (/\ authResp'.op = "adminLogin"
             /\ requireAdmin("PUT", authResp'.token).status = 200
             /\ AdminLogin(e, pw)) =>
                /\ e = STATIC_ADMIN_EMAIL_FINAL
                /\ pw = STATIC_ADMIN_PASSWORD_FINAL]_vars

\* C28 (amended): a token that passes requireAdmin is issued only by
\* admin/login, and only when the submitted email, trimmed and lowercased,
\* is the reserved admin email and the submitted password is equal to the
\* reserved admin password; every admin/login call with such inputs issues
\* one; no token issued to a signed-up User passes requireAdmin.
C28_AdminTokenOnlyFromAdminLogin ==
    /\ [](requireAdmin("PUT", authResp.token).status = 200 =>
              authResp.op = "adminLogin" /\ authResp.status = 200)
    /\ [](authResp.op \in {"signup", "loginPassword", "requestOtp", "verifyOtp"} =>
              requireAdmin("PUT", authResp.token).status # 200)
    /\ [][\A e \in RawEmails : \A pw \in AdminPasswords :
            (authResp'.op = "adminLogin" /\ AdminLogin(e, pw)) =>
                (requireAdmin("PUT", authResp'.token).status = 200 <=>
                    /\ normalizeEmail(e) = STATIC_ADMIN_EMAIL_FINAL
                    /\ pw = STATIC_ADMIN_PASSWORD_FINAL)]_vars

\* admin/login has issued a token that passes requireAdmin, after a
\* signed-up User was issued a token by verify-otp.
C28_Witness ==
    /\ authResp.op = "adminLogin"
    /\ requireAdmin("PUT", authResp.token).status = 200
    /\ \E s \in otpSessions : s.tokens = 1


\* C29: in every reachable state, also while an image upload and a folder
\* delete interleave, every GalleryImage record's folderId is the id of a
\* GalleryFolder that exists.
C29_ImageFolderExists ==
    \A i \in galleryImages : i.folderId \in galleryFolders


\* C30: at both entry points, a request that requireDb answers while the
\* connection is down (never connected, a connect attempt failed, or
\* 'disconnected' or 'error' was the last connection event) is answered 503
\* and is not passed on to the handler.
C30_DownMeans503 ==
    [][\A e \in EntryPoints :
        (db'[e].reply # db[e].reply /\ Down(db'[e])) =>
            db'[e].reply.status = 503]_vars

=========================================================================
